---- MODULE Spec2Model ----
(***************************************************************************)
(* The in-memory ledger store of database/memdb/memdb.go (type MemDb).     *)
(*                                                                         *)
(* Hashes are modelled as collision-free: a transaction hash is a name     *)
(* that fixes the transaction's inputs and output count (MsgTx), and a     *)
(* block hash is the block's previous-hash followed by its transaction     *)
(* list (BlockHash), so equal hashes mean equal contents.                  *)
(*                                                                         *)
(* A Go run-time panic (index out of range) unwinds the handler after the  *)
(* assignments made so far; the deferred Unlock runs and the program       *)
(* stops.  It is modelled as the error value "panic" and the partial       *)
(* state, after which no operation runs.                                   *)
(*                                                                         *)
(* Every operation is an operator from the store db = [blocks,             *)
(* blocksBySha, txns, closed] and the call's arguments to the call's       *)
(* result [err, val, db]; the actions apply it to the current store.       *)
(*                                                                         *)
(* The peers and the peer set of netsync/peer.go (types peer, peerSet)     *)
(* follow the ledger store.  Peer objects live in a heap, so that a thread *)
(* may keep a pointer to a peer the set no longer holds; every method is   *)
(* a sequence of steps of the thread that calls it, one step per lock      *)
(* operation, per access to shared fields and per call of the transport.   *)
(***************************************************************************)
EXTENDS Integers, Sequences, FiniteSets, TLC

VARIABLES blocks, blocksBySha, txns, closed, last,
          peers, heap, psMtx, th,
          pkScript, made, out

dbVars == <<blocks, blocksBySha, txns, closed>>
vars == <<blocks, blocksBySha, txns, closed, last>>
peerVars == <<peers, heap, psMtx, th>>
scriptVars == <<pkScript, made, out>>

(***************************************************************************)
(* Bounds of the model.                                                    *)
(***************************************************************************)
MaxBlocks == 3      \* InsertBlock is not called on a longer block vector
MaxHashes == 3      \* ... nor with more entries in blocksBySha
MaxBlockTxs == 2    \* transactions per submitted block
MaxThreads == 2     \* threads that call the peer set
MaxPeers == 2       \* peer objects ever created
MaxScore == 120     \* no ban score is raised beyond it

(***************************************************************************)
(* Data vocabulary.                                                        *)
(***************************************************************************)
\* math.MaxUint32, the index of the coinbase sentinel.  TLC's integers end at
\* 2^31 - 1, which stands for it: the code only tests the index for equality
\* with the sentinel and compares it with an output count.
MaxUint32 == 2147483647

zeroHash == <<>>
zeroTxHash == "zero"

OutPoint(hash, index) == [Hash |-> hash, Index |-> index]

\* The transactions a block may carry: hash |-> inputs and number of outputs.
\*   cb  a coinbase with one output
\*   a   spends cb[0]; two outputs
\*   b   spends a[0]
\*   c   spends a[1] and cb[0] (cb[0] is also spent by a)
\*   d   spends cb[1], the index one past cb's only output
\*   e   spends cb[2], an index beyond cb's outputs
\*   k   a coinbase (first input is the sentinel) with a second, ordinary input
MsgTx ==
    [cb |-> [TxIn |-> <<OutPoint(zeroTxHash, MaxUint32)>>, TxOut |-> 1],
     a  |-> [TxIn |-> <<OutPoint("cb", 0)>>, TxOut |-> 2],
     b  |-> [TxIn |-> <<OutPoint("a", 0)>>, TxOut |-> 1],
     c  |-> [TxIn |-> <<OutPoint("a", 1), OutPoint("cb", 0)>>, TxOut |-> 1],
     d  |-> [TxIn |-> <<OutPoint("cb", 1)>>, TxOut |-> 1],
     e  |-> [TxIn |-> <<OutPoint("cb", 2)>>, TxOut |-> 1],
     k  |-> [TxIn |-> <<OutPoint(zeroTxHash, MaxUint32), OutPoint("cb", 0)>>,
             TxOut |-> 1]]

TxHashes == DOMAIN MsgTx

\* A block hash no block of the model has.
missingHash == <<<<"none">>>>

MsgBlock(previous, transactions) ==
    [Previous |-> previous, Transactions |-> transactions]

BlockHash(msgBlock) == Append(msgBlock.Previous, msgBlock.Transactions)

TxLists == UNION {[1..n -> TxHashes] : n \in 0..MaxBlockTxs}

\* The blocks a caller may submit in the current state.
BlockInputs ==
    {MsgBlock(p, ts) : p \in DOMAIN blocksBySha \cup {zeroHash, missingHash},
                       ts \in TxLists}

\* Those of them with at most one transaction.
SmallBlockInputs == {msgBlock \in BlockInputs : Len(msgBlock.Transactions) <= 1}

\* The block hashes a caller may ask about in the current state.
ShaInputs == DOMAIN blocksBySha \cup {zeroHash, missingHash}

\* The transaction hashes and heights a caller may ask about.
TxShaInputs == TxHashes \cup {zeroTxHash}
HeightInputs == -1..MaxBlocks

(***************************************************************************)
(* Helpers of memdb.go.                                                    *)
(***************************************************************************)
isCoinbaseInput(txIn) == txIn.Index = MaxUint32 /\ txIn.Hash = zeroTxHash

isCoinBaseTx(msgTx) ==
    ~(msgTx.TxIn[1].Index # MaxUint32 \/ msgTx.TxIn[1].Hash # zeroTxHash)

RECURSIVE allSpentFrom(_, _)
allSpentFrom(spentBuf, n) ==
    IF n > Len(spentBuf) THEN TRUE
    ELSE IF ~spentBuf[n] THEN FALSE
    ELSE allSpentFrom(spentBuf, n + 1)

isFullySpent(txD) == allSpentFrom(txD.spentBuf, 1)

tTxInsertData(blockHeight, offset, nOut) ==
    [blockHeight |-> blockHeight, offset |-> offset,
     spentBuf |-> [n \in 1..nOut |-> FALSE]]

\* txns[hash][len-1], the most recent version of a stored transaction.
mostRecent(t, hash) == t[hash][Len(t[hash])]

\* map[key] = value on a Go map.
mapPut(m, key, value) ==
    [x \in DOMAIN m \cup {key} |-> IF x = key THEN value ELSE m[x]]

\* delete(map, key)
mapDelete(m, key) == [x \in DOMAIN m \ {key} |-> m[x]]

emptyMap == [x \in {} |-> x]

(***************************************************************************)
(* The store, and what a call returns and leaves behind.                   *)
(***************************************************************************)
\* type MemDb
MemDb(b, bySha, t, c) ==
    [blocks |-> b, blocksBySha |-> bySha, txns |-> t, closed |-> c]

\* newMemDb
newMemDb == MemDb(<<>>, emptyMap, emptyMap, FALSE)

\* The store of the current state.
StoreNow == MemDb(blocks, blocksBySha, txns, closed)

\* A return that leaves the store as it is.
Return(db, err, val) == [err |-> err, val |-> val, db |-> db]

(***************************************************************************)
(* InsertBlock, first pass: the checks made before any mutation.           *)
(***************************************************************************)
\* txInFlight[*tx.Hash()] = i for i = 0, 1, ...: the last index wins.
txInFlight(transactions) ==
    [h \in {transactions[n] : n \in DOMAIN transactions} |->
        (CHOOSE n \in DOMAIN transactions :
            /\ transactions[n] = h
            /\ \A m \in DOMAIN transactions : transactions[m] = h => m <= n) - 1]

\* The comparison of referencedTooLate the other way round.
referencedTooEarly(i, inFlightIndex) == i > inFlightIndex

\* if i <= inFlightIndex
referencedTooLate(i, inFlightIndex) == i <= inFlightIndex

\* if prevOut.Index > uint32(len(originTxD.spentBuf))
indexOutOfRange(index, originTxD) == index > Len(originTxD.spentBuf)

\* if inFlightIndex, exists := txInFlight[*tx.Hash()]; exists && inFlightIndex < i
duplicateInBlock(inFlight, hash, i) ==
    hash \in DOMAIN inFlight /\ inFlight[hash] < i

\* The store test without the look at the spent flags.
storedAtAll(db, hash) == hash \in DOMAIN db.txns

\* if txns, exists := db.txns[*tx.Hash()]; exists { ... !isFullySpent(txD) }
duplicateInStore(db, hash) ==
    hash \in DOMAIN db.txns /\ ~isFullySpent(mostRecent(db.txns, hash))

\* The check of one input of the transaction at index i (0-based).
checkTxIn(db, transactions, i, txIn) ==
    LET inFlight == txInFlight(transactions)
    IN  IF isCoinbaseInput(txIn) THEN "nil"
        ELSE IF isCoinBaseTx(MsgTx[transactions[i + 1]]) THEN "nil"
        ELSE IF txIn.Hash \in DOMAIN inFlight
             THEN IF referencedTooLate(i, inFlight[txIn.Hash])
                  THEN "ErrTxShaMissing" ELSE "nil"
        ELSE IF txIn.Hash \notin DOMAIN db.txns THEN "ErrTxShaMissing"
        ELSE IF indexOutOfRange(txIn.Index, mostRecent(db.txns, txIn.Hash))
             THEN "ErrTxShaMissing" ELSE "nil"

\* The inputs of transaction i from input k (1-based) on: the first error.
RECURSIVE checkTxIns(_, _, _, _)
checkTxIns(db, transactions, i, k) ==
    LET txIn == MsgTx[transactions[i + 1]].TxIn
    IN  IF k > Len(txIn) THEN "nil"
        ELSE LET err == checkTxIn(db, transactions, i, txIn[k])
             IN  IF err # "nil" THEN err
                 ELSE checkTxIns(db, transactions, i, k + 1)

\* One iteration of the validation loop.
checkTx(db, transactions, i) ==
    LET hash == transactions[i + 1]
        err == checkTxIns(db, transactions, i, 1)
    IN  IF err # "nil" THEN err
        ELSE IF duplicateInBlock(txInFlight(transactions), hash, i)
             THEN "ErrDuplicateSha"
        ELSE IF duplicateInStore(db, hash) THEN "ErrDuplicateSha"
        ELSE "nil"

\* The validation loop from transaction i on: the first error.
RECURSIVE checkTransactions(_, _, _)
checkTransactions(db, transactions, i) ==
    IF i >= Len(transactions) THEN "nil"
    ELSE LET err == checkTx(db, transactions, i)
         IN  IF err # "nil" THEN err
             ELSE checkTransactions(db, transactions, i + 1)

\* if _, exists := db.blocksBySha[Previous]; !exists { if len(db.blocks) > 0
prevShaMissing(db, msgBlock) ==
    msgBlock.Previous \notin DOMAIN db.blocksBySha /\ Len(db.blocks) > 0

(***************************************************************************)
(* InsertBlock, second pass.  st = [blocks, txns, ok]: the fields being    *)
(* assigned; ok turns FALSE at a panic, which ends the pass.               *)
(***************************************************************************)
\* originTxD.spentBuf[prevOut.Index] = value on the most recent version.
setSpent(st, prevOut, value) ==
    IF prevOut.Hash \notin DOMAIN st.txns THEN [st EXCEPT !.ok = FALSE]
    ELSE LET n == Len(st.txns[prevOut.Hash])
         IN  IF prevOut.Index >= Len(st.txns[prevOut.Hash][n].spentBuf)
             THEN [st EXCEPT !.ok = FALSE]
             ELSE [st EXCEPT
                     !.txns[prevOut.Hash][n].spentBuf[prevOut.Index + 1] = value]

RECURSIVE spendInputs(_, _, _)
spendInputs(st, msgTx, k) ==
    IF ~st.ok \/ k > Len(msgTx.TxIn) THEN st
    ELSE IF isCoinbaseInput(msgTx.TxIn[k]) \/ isCoinBaseTx(msgTx)
         THEN spendInputs(st, msgTx, k + 1)
    ELSE spendInputs(setSpent(st, msgTx.TxIn[k], TRUE), msgTx, k + 1)

\* db.txns[*tx.Hash()] = append(db.txns[*tx.Hash()], &txD)
appendTxD(t, hash, txD) ==
    mapPut(t, hash, Append(IF hash \in DOMAIN t THEN t[hash] ELSE <<>>, txD))

\* One iteration of the second loop.
insertTx(st, hash, i, newHeight) ==
    LET msgTx == MsgTx[hash]
        s1 == [st EXCEPT !.txns =
                 appendTxD(st.txns, hash, tTxInsertData(newHeight, i, msgTx.TxOut))]
    IN  IF isCoinBaseTx(msgTx) THEN s1 ELSE spendInputs(s1, msgTx, 1)

RECURSIVE insertTxs(_, _, _, _)
insertTxs(st, transactions, i, newHeight) ==
    IF ~st.ok \/ i >= Len(transactions) THEN st
    ELSE insertTxs(insertTx(st, transactions[i + 1], i, newHeight),
                   transactions, i + 1, newHeight)

InsertBlockResult(db, msgBlock) ==
    IF db.closed THEN Return(db, "ErrDbClosed", 0)
    ELSE IF prevShaMissing(db, msgBlock) THEN Return(db, "ErrPrevShaMissing", 0)
    ELSE LET err == checkTransactions(db, msgBlock.Transactions, 0)
         IN  IF err # "nil" THEN Return(db, err, 0)
             ELSE LET newHeight == Len(db.blocks)
                      st == insertTxs([blocks |-> Append(db.blocks, msgBlock),
                                       txns |-> db.txns, ok |-> TRUE],
                                      msgBlock.Transactions, 0, newHeight)
                      after == MemDb(st.blocks,
                                     mapPut(db.blocksBySha, BlockHash(msgBlock),
                                            newHeight),
                                     st.txns, db.closed)
                  IN  IF st.ok THEN Return(after, "nil", newHeight)
                      ELSE Return(after, "panic", 0)

\* A rollback that leaves the spent flags as they are.
unspendNothing(st, msgTx, k) == st

(***************************************************************************)
(* removeTx and DropAfterBlockBySha.                                       *)
(***************************************************************************)
RECURSIVE unspendInputs(_, _, _)
unspendInputs(st, msgTx, k) ==
    IF ~st.ok \/ k > Len(msgTx.TxIn) THEN st
    ELSE IF isCoinbaseInput(msgTx.TxIn[k]) \/ isCoinBaseTx(msgTx)
         THEN unspendInputs(st, msgTx, k + 1)
    ELSE IF msgTx.TxIn[k].Hash \notin DOMAIN st.txns
         THEN unspendInputs(st, msgTx, k + 1)
    ELSE unspendInputs(setSpent(st, msgTx.TxIn[k], FALSE), msgTx, k + 1)

\* Remove the info for the most recent version of the transaction.
popTxD(st, txHash) ==
    IF txHash \notin DOMAIN st.txns THEN [st EXCEPT !.ok = FALSE]
    ELSE LET rest == SubSeq(st.txns[txHash], 1, Len(st.txns[txHash]) - 1)
         IN  IF Len(rest) = 0
             THEN [st EXCEPT !.txns = mapDelete(st.txns, txHash)]
             ELSE [st EXCEPT !.txns[txHash] = rest]

removeTx(st, txHash) ==
    LET s1 == unspendInputs(st, MsgTx[txHash], 1)
    IN  IF ~s1.ok THEN s1 ELSE popTxD(s1, txHash)

\* for j := len(transactions) - 1; j >= 0; j--
RECURSIVE removeTxs(_, _, _)
removeTxs(st, transactions, j) ==
    IF ~st.ok \/ j < 0 THEN st
    ELSE removeTxs(removeTx(st, transactions[j + 1]), transactions, j - 1)

\* db.blocks = db.blocks[:i]
truncateBlocks(st, i) == [st EXCEPT !.blocks = SubSeq(st.blocks, 1, i)]

\* for i := endHeight; i > height; i--
RECURSIVE dropBlocks(_, _, _)
dropBlocks(st, i, height) ==
    IF ~st.ok \/ i <= height THEN st
    ELSE LET s1 == removeTxs(st, st.blocks[i + 1].Transactions,
                             Len(st.blocks[i + 1].Transactions) - 1)
         IN  IF ~s1.ok THEN s1
             ELSE dropBlocks(truncateBlocks(s1, i), i - 1, height)

DropAfterBlockByShaResult(db, sha) ==
    IF db.closed THEN Return(db, "ErrDbClosed", 0)
    ELSE IF sha \notin DOMAIN db.blocksBySha
         THEN Return(db, "ErrBlockNotFound", 0)
    ELSE LET st == dropBlocks([blocks |-> db.blocks, txns |-> db.txns,
                               ok |-> TRUE],
                              Len(db.blocks) - 1, db.blocksBySha[sha])
             after == MemDb(st.blocks, db.blocksBySha, st.txns, db.closed)
         IN  Return(after, IF st.ok THEN "nil" ELSE "panic", 0)

(***************************************************************************)
(* Close, RollbackClose, Sync.                                             *)
(***************************************************************************)
CloseResult(db) ==
    IF db.closed THEN Return(db, "ErrDbClosed", 0)
    ELSE Return(MemDb(<<>>, emptyMap, emptyMap, TRUE), "nil", 0)

RollbackCloseResult(db) == CloseResult(db)

\* A Sync that does not look at the closed flag.
SyncWhateverState(db) == Return(db, "nil", 0)

SyncResult(db) ==
    IF db.closed THEN Return(db, "ErrDbClosed", 0) ELSE Return(db, "nil", 0)

(***************************************************************************)
(* Read operations.  None of them assigns a field of the store.            *)
(***************************************************************************)
\* db.blocks[height] panics when height is no index of the vector.
indexPanics(db, height) == ~(height >= 0 /\ height < Len(db.blocks))

blockAt(db, height) == db.blocks[height + 1]

ExistsShaResult(db, sha) ==
    IF db.closed THEN Return(db, "ErrDbClosed", FALSE)
    ELSE Return(db, "nil", sha \in DOMAIN db.blocksBySha)

FetchBlockByShaResult(db, sha) ==
    IF db.closed THEN Return(db, "ErrDbClosed", 0)
    ELSE IF sha \in DOMAIN db.blocksBySha
         THEN IF indexPanics(db, db.blocksBySha[sha]) THEN Return(db, "panic", 0)
              ELSE Return(db, "nil",
                          [block |-> blockAt(db, db.blocksBySha[sha]),
                           height |-> db.blocksBySha[sha]])
    ELSE Return(db, "ErrBlockNotFound", 0)

FetchBlockHeightByShaResult(db, sha) ==
    IF db.closed THEN Return(db, "ErrDbClosed", 0)
    ELSE IF sha \in DOMAIN db.blocksBySha
         THEN Return(db, "nil", db.blocksBySha[sha])
    ELSE Return(db, "ErrBlockNotFound", 0)

FetchBlockHeaderByShaResult(db, sha) ==
    IF db.closed THEN Return(db, "ErrDbClosed", 0)
    ELSE IF sha \in DOMAIN db.blocksBySha
         THEN IF indexPanics(db, db.blocksBySha[sha]) THEN Return(db, "panic", 0)
              ELSE Return(db, "nil",
                          [Previous |->
                              blockAt(db, db.blocksBySha[sha]).Previous])
    ELSE Return(db, "ErrBlockNotFound", 0)

FetchBlockShaByHeightResult(db, height) ==
    IF db.closed THEN Return(db, "ErrDbClosed", 0)
    ELSE IF height < 0 \/ height > Len(db.blocks) - 1
         THEN Return(db, "ErrHeightRange", 0)
    ELSE Return(db, "nil", BlockHash(db.blocks[height + 1]))

\* A FetchHeightRange that stops at the caller's end height.
FetchHeightRangeToEnd(db, startHeight, endHeight) ==
    IF db.closed THEN Return(db, "ErrDbClosed", <<>>)
    ELSE LET end == IF endHeight < Len(db.blocks) THEN endHeight
                    ELSE Len(db.blocks)
         IN  IF startHeight < 0 THEN Return(db, "ErrStartHeight", <<>>)
             ELSE IF end < startHeight THEN Return(db, "ErrEndHeight", <<>>)
             ELSE Return(db, "nil",
                         [n \in 1..(end - startHeight) |->
                             BlockHash(db.blocks[startHeight + n])])

FetchHeightRangeResult(db, startHeight, endHeight) ==
    IF db.closed THEN Return(db, "ErrDbClosed", <<>>)
    ELSE LET end == Len(db.blocks)
         IN  IF startHeight < 0 THEN Return(db, "ErrStartHeight", <<>>)
             ELSE IF end < startHeight THEN Return(db, "ErrEndHeight", <<>>)
             ELSE Return(db, "nil",
                         [n \in 1..(end - startHeight) |->
                             BlockHash(db.blocks[startHeight + n])])

ExistsTxShaResult(db, sha) ==
    IF db.closed THEN Return(db, "ErrDbClosed", FALSE)
    ELSE IF sha \in DOMAIN db.txns
         THEN Return(db, "nil", ~isFullySpent(mostRecent(db.txns, sha)))
    ELSE Return(db, "nil", FALSE)

\* The reply built from one tTxInsertData of transaction txHash.
TxListReply(db, txHash, txD) ==
    [Sha |-> txHash,
     Tx |-> blockAt(db, txD.blockHeight).Transactions[txD.offset + 1],
     BlkSha |-> BlockHash(blockAt(db, txD.blockHeight)),
     Height |-> txD.blockHeight,
     TxSpent |-> txD.spentBuf,
     Err |-> "nil"]

FetchTxByShaResult(db, txHash) ==
    IF db.closed THEN Return(db, "ErrDbClosed", <<>>)
    ELSE IF txHash \notin DOMAIN db.txns
         THEN Return(db, "ErrTxShaMissing", <<>>)
    ELSE IF \E n \in DOMAIN db.txns[txHash] :
                indexPanics(db, db.txns[txHash][n].blockHeight)
         THEN Return(db, "panic", <<>>)
    ELSE Return(db, "nil", [n \in DOMAIN db.txns[txHash] |->
                              TxListReply(db, txHash, db.txns[txHash][n])])

\* One reply of fetchTxByShaList.
fetchTxReply(db, hash, includeSpent) ==
    LET missing == [Sha |-> hash, Err |-> "ErrTxShaMissing"]
    IN  IF db.closed THEN [Sha |-> hash, Err |-> "ErrDbClosed"]
        ELSE IF hash \notin DOMAIN db.txns THEN missing
        ELSE IF ~includeSpent /\ isFullySpent(mostRecent(db.txns, hash))
             THEN missing
        ELSE IF indexPanics(db, mostRecent(db.txns, hash).blockHeight)
             THEN [Sha |-> hash, Err |-> "panic"]
        ELSE TxListReply(db, hash, mostRecent(db.txns, hash))

\* The call has no error of its own ("none"); each reply carries one.
fetchTxByShaList(db, txShaList, includeSpent) ==
    LET replyList == [n \in DOMAIN txShaList |->
                        fetchTxReply(db, txShaList[n], includeSpent)]
    IN  IF \E n \in DOMAIN replyList : replyList[n].Err = "panic"
        THEN Return(db, "panic", <<>>)
        ELSE Return(db, "none", replyList)

FetchTxByShaListResult(db, txShaList) == fetchTxByShaList(db, txShaList, TRUE)

FetchUnSpentTxByShaListResult(db, txShaList) ==
    fetchTxByShaList(db, txShaList, FALSE)

\* A NewestSha that counts the entries of the hash map.
NewestShaByMap(db) ==
    IF db.closed THEN Return(db, "ErrDbClosed", 0)
    ELSE IF Cardinality(DOMAIN db.blocksBySha) = 0
         THEN Return(db, "nil", [sha |-> zeroHash, height |-> -1])
    ELSE Return(db, "nil", [sha |-> BlockHash(db.blocks[Len(db.blocks)]),
                            height |-> Cardinality(DOMAIN db.blocksBySha) - 1])

NewestShaResult(db) ==
    IF db.closed THEN Return(db, "ErrDbClosed", 0)
    ELSE IF Len(db.blocks) = 0
         THEN Return(db, "nil", [sha |-> zeroHash, height |-> -1])
    ELSE Return(db, "nil", [sha |-> BlockHash(db.blocks[Len(db.blocks)]),
                            height |-> Len(db.blocks) - 1])

(***************************************************************************)
(* The address-index operations: not implemented, whatever the state.      *)
(***************************************************************************)
FetchAddrIndexTipResult(db) == Return(db, "ErrNotImplemented", 0)

UpdateAddrIndexForBlockResult(db) == Return(db, "ErrNotImplemented", 0)

FetchTxsForAddrResult(db) == Return(db, "ErrNotImplemented", 0)

FetchUtxosForAddrsResult(db) == Return(db, "ErrNotImplemented", 0)

DeleteAddrIndexResult(db) == Return(db, "ErrNotImplemented", 0)

(***************************************************************************)
(* Peers and the peer set: constants, locks and construction.              *)
(***************************************************************************)
maxKnownTxs == 32768
maxKnownBlocks == 1024
defaultBanThreshold == 100

Threads == 1..MaxThreads

PeerIDs == {"P", "Q"}

\* basePeer.Addr().String()
Addr(id) == <<"addr", id>>

\* A sync.RWMutex: the writer (0: none) and each thread's read holds.
RWMutex == [w |-> 0, r |-> [t \in Threads |-> 0], woken |-> {}]

\* Lock() returns once there is neither a writer nor a reader.
CanLock(m) == m.w = 0 /\ \A t \in Threads : m.r[t] = 0

\* RLock() returns once there is no writer and no thread blocked in Lock(),
\* or once an Unlock() has woken the reader.
CanRLock(m, t, blockedInLock) ==
    t \in m.woken \/ (m.w = 0 /\ blockedInLock = {})

Lock(m, t) == [m EXCEPT !.w = t]

\* Unlock() makes readers of the threads blocked in RLock() before the
\* next writer can have the lock.
Unlock(m, blockedInRLock) ==
    [m EXCEPT !.w = 0,
              !.r = [t \in Threads |-> IF t \in blockedInRLock THEN @[t] + 1
                                       ELSE @[t]],
              !.woken = blockedInRLock]

RLock(m, t) ==
    IF t \in m.woken THEN [m EXCEPT !.woken = @ \ {t}]
    ELSE [m EXCEPT !.r[t] = @ + 1]

RUnlock(m, t) == [m EXCEPT !.r[t] = @ - 1]

newPeer(height, hsh, id, services) ==
    [ID |-> id,
     mtx |-> RWMutex,
     services |-> services,
     height |-> height,
     hash |-> hsh,
     banScore |-> [persistent |-> 0, transient |-> 0],
     knownTxs |-> {},
     knownBlocks |-> {},
     filterAdds |-> {}]

\* The peer map of a new peer set.
newPeerSet == emptyMap

\* A thread that is in no call; log holds the transport calls and map
\* deletions of its last call, in order.
NoCall ==
    [op |-> "none", pc |-> "done", stack |-> <<>>, id |-> "", p |-> 0,
     todo |-> {}, arg |-> <<>>, ok |-> FALSE, log |-> <<>>]

(***************************************************************************)
(* The state machine.                                                      *)
(***************************************************************************)
\* The program has stopped in a panic.
panicked == last.err = "panic"

Init ==
    /\ blocks = newMemDb.blocks
    /\ blocksBySha = newMemDb.blocksBySha
    /\ txns = newMemDb.txns
    /\ closed = newMemDb.closed
    /\ last = [op |-> "newMemDb", err |-> "nil"]
    /\ peers = newPeerSet
    /\ heap = <<>>
    /\ psMtx = RWMutex
    /\ th = [t \in Threads |-> NoCall]
    /\ pkScript = <<>>
    /\ made = [op |-> "none"]
    /\ out = [op |-> "none", err |-> "nil"]

\* A call of operation op with result r.
Call(op, r) ==
    /\ ~panicked
    /\ blocks' = r.db.blocks
    /\ blocksBySha' = r.db.blocksBySha
    /\ txns' = r.db.txns
    /\ closed' = r.db.closed
    /\ last' = [op |-> op, err |-> r.err]
    /\ UNCHANGED <<peerVars, scriptVars>>

\* InsertBlock called with a block of the set inputs.
InsertBlockOf(inputs) ==
    /\ Len(blocks) < MaxBlocks
    /\ Cardinality(DOMAIN blocksBySha) < MaxHashes
    /\ \E msgBlock \in inputs :
          Call("InsertBlock", InsertBlockResult(StoreNow, msgBlock))

InsertBlock == InsertBlockOf(BlockInputs)

\* The same call with a block of at most one transaction.
InsertSmallBlock == InsertBlockOf(SmallBlockInputs)

DropAfterBlockBySha ==
    \E sha \in ShaInputs :
        Call("DropAfterBlockBySha", DropAfterBlockByShaResult(StoreNow, sha))

Close == Call("Close", CloseResult(StoreNow))

RollbackClose == Call("RollbackClose", RollbackCloseResult(StoreNow))

Sync == Call("Sync", SyncResult(StoreNow))

ExistsSha ==
    \E sha \in ShaInputs : Call("ExistsSha", ExistsShaResult(StoreNow, sha))

FetchBlockBySha ==
    \E sha \in ShaInputs :
        Call("FetchBlockBySha", FetchBlockByShaResult(StoreNow, sha))

FetchBlockHeightBySha ==
    \E sha \in ShaInputs :
        Call("FetchBlockHeightBySha", FetchBlockHeightByShaResult(StoreNow, sha))

FetchBlockHeaderBySha ==
    \E sha \in ShaInputs :
        Call("FetchBlockHeaderBySha", FetchBlockHeaderByShaResult(StoreNow, sha))

FetchBlockShaByHeight ==
    \E height \in HeightInputs :
        Call("FetchBlockShaByHeight",
             FetchBlockShaByHeightResult(StoreNow, height))

FetchHeightRange ==
    \E startHeight \in HeightInputs, endHeight \in HeightInputs :
        Call("FetchHeightRange",
             FetchHeightRangeResult(StoreNow, startHeight, endHeight))

ExistsTxSha ==
    \E sha \in TxShaInputs :
        Call("ExistsTxSha", ExistsTxShaResult(StoreNow, sha))

FetchTxBySha ==
    \E sha \in TxShaInputs :
        Call("FetchTxBySha", FetchTxByShaResult(StoreNow, sha))

FetchTxByShaList ==
    \E txShaList \in TxLists :
        Call("FetchTxByShaList", FetchTxByShaListResult(StoreNow, txShaList))

FetchUnSpentTxByShaList ==
    \E txShaList \in TxLists :
        Call("FetchUnSpentTxByShaList",
             FetchUnSpentTxByShaListResult(StoreNow, txShaList))

NewestSha == Call("NewestSha", NewestShaResult(StoreNow))

FetchAddrIndexTip ==
    Call("FetchAddrIndexTip", FetchAddrIndexTipResult(StoreNow))

UpdateAddrIndexForBlock ==
    Call("UpdateAddrIndexForBlock", UpdateAddrIndexForBlockResult(StoreNow))

FetchTxsForAddr == Call("FetchTxsForAddr", FetchTxsForAddrResult(StoreNow))

FetchUtxosForAddrs ==
    Call("FetchUtxosForAddrs", FetchUtxosForAddrsResult(StoreNow))

DeleteAddrIndex == Call("DeleteAddrIndex", DeleteAddrIndexResult(StoreNow))

\* The operations that change the store.
Next ==
    \/ InsertBlock
    \/ DropAfterBlockBySha
    \/ Close
    \/ RollbackClose
    \/ Sync

Spec == Init /\ [][Next]_vars

\* Every operation, on blocks of at most one transaction.
NextOps ==
    \/ InsertSmallBlock
    \/ DropAfterBlockBySha
    \/ Close
    \/ RollbackClose
    \/ Sync
    \/ ExistsSha
    \/ FetchBlockBySha
    \/ FetchBlockHeightBySha
    \/ FetchBlockHeaderBySha
    \/ FetchBlockShaByHeight
    \/ FetchHeightRange
    \/ ExistsTxSha
    \/ FetchTxBySha
    \/ FetchTxByShaList
    \/ FetchUnSpentTxByShaList
    \/ NewestSha
    \/ FetchAddrIndexTip
    \/ UpdateAddrIndexForBlock
    \/ FetchTxsForAddr
    \/ FetchUtxosForAddrs
    \/ DeleteAddrIndex

SpecOps == Init /\ [][NextOps]_vars

(***************************************************************************)
(* Vocabulary of the properties.                                           *)
(***************************************************************************)
\* The number of positions of a transaction list that hold hash.
Occurrences(transactions, hash) ==
    Cardinality({n \in DOMAIN transactions : transactions[n] = hash})

\* The number of versions the tx map holds of hash.
Versions(t, hash) == IF hash \in DOMAIN t THEN Len(t[hash]) ELSE 0

\* The inputs InsertBlock and removeTx act on: the non-coinbase inputs of the
\* non-coinbase transactions of a transaction list, as <<position, input>>.
SpendingInputs(transactions) ==
    UNION {{<<n, k>> : k \in {k \in DOMAIN MsgTx[transactions[n]].TxIn :
                                 /\ ~isCoinBaseTx(MsgTx[transactions[n]])
                                 /\ ~isCoinbaseInput(MsgTx[transactions[n]].TxIn[k])}}
           : n \in DOMAIN transactions}

InputAt(transactions, nk) == MsgTx[transactions[nk[1]]].TxIn[nk[2]]

\* The step is a call of InsertBlock(msgBlock).
InsertBlockStep(msgBlock) ==
    Call("InsertBlock", InsertBlockResult(StoreNow, msgBlock))

\* The step is a call of DropAfterBlockBySha(sha).
DropStep(sha) ==
    Call("DropAfterBlockBySha", DropAfterBlockByShaResult(StoreNow, sha))

\* after is db with every mutation of InsertBlock(msgBlock) applied.
AllApplied(db, msgBlock, after) ==
    /\ after.blocks = Append(db.blocks, msgBlock)
    /\ after.blocksBySha =
           mapPut(db.blocksBySha, BlockHash(msgBlock), Len(db.blocks))
    /\ after.closed = db.closed
    /\ \A hash \in TxHashes :
           Versions(after.txns, hash) =
               Versions(db.txns, hash) + Occurrences(msgBlock.Transactions, hash)
    /\ \A nk \in SpendingInputs(msgBlock.Transactions) :
           LET prevOut == InputAt(msgBlock.Transactions, nk)
           IN  /\ prevOut.Hash \in DOMAIN after.txns
               /\ prevOut.Index < Len(mostRecent(after.txns, prevOut.Hash).spentBuf)
               /\ mostRecent(after.txns, prevOut.Hash).spentBuf[prevOut.Index + 1]

(***************************************************************************)
(* C1.  InsertBlock is all-or-nothing: every call either applies all of    *)
(* its mutations (block appended, hash registered, one entry per           *)
(* transaction, every referenced spent flag set) and returns the new       *)
(* height, or fails and leaves the store exactly as it was.                *)
(***************************************************************************)
C1_InsertAllOrNothing ==
    [][\A msgBlock \in BlockInputs :
          InsertBlockStep(msgBlock) =>
              LET r == InsertBlockResult(StoreNow, msgBlock)
              IN  \/ /\ r.err = "nil"
                     /\ r.val = Len(blocks)
                     /\ AllApplied(StoreNow, msgBlock, r.db)
                  \/ /\ r.err # "nil"
                     /\ UNCHANGED dbVars]_vars

(***************************************************************************)
(* C2.  InsertBlock of a block that holds the same transaction hash at     *)
(* two positions returns ErrDuplicateSha and leaves the store unchanged    *)
(* (stated for an open store and a block that passes the parent check and  *)
(* the input checks, so that no other error comes first).                  *)
(***************************************************************************)
HasDuplicateTx(msgBlock) ==
    \E n, m \in DOMAIN msgBlock.Transactions :
        n < m /\ msgBlock.Transactions[n] = msgBlock.Transactions[m]

InputChecksPass(db, msgBlock) ==
    \A n \in DOMAIN msgBlock.Transactions :
        checkTxIns(db, msgBlock.Transactions, n - 1, 1) = "nil"

C2_DuplicateInBlockRejected ==
    [][\A msgBlock \in BlockInputs :
          ( /\ ~closed
            /\ ~prevShaMissing(StoreNow, msgBlock)
            /\ InputChecksPass(StoreNow, msgBlock)
            /\ HasDuplicateTx(msgBlock)
            /\ InsertBlockStep(msgBlock) )
          => /\ last'.err = "ErrDuplicateSha"
             /\ UNCHANGED dbVars]_vars

(***************************************************************************)
(* C3.  Insert/rollback round trip: on a store built by successful         *)
(* inserts alone, DropAfterBlockBySha of the stored block at height k      *)
(* leaves the store equal to the store right after that block was          *)
(* inserted (block vector, hash map, tx map, spent flags), and every       *)
(* dropped block and every transaction held by dropped blocks only is      *)
(* reported absent.                                                        *)
(***************************************************************************)
\* The store after the blocks bs[n], bs[n+1], ... are inserted into db.
RECURSIVE ReplayFrom(_, _, _)
ReplayFrom(db, bs, n) ==
    IF n > Len(bs) THEN db
    ELSE ReplayFrom(InsertBlockResult(db, bs[n]).db, bs, n + 1)

Replay(bs) == ReplayFrom(newMemDb, bs, 1)

\* The store is what inserting its blocks into a fresh store leaves.
InsertedOnly == StoreNow = Replay(blocks)

HashesOf(bs) == {BlockHash(bs[n]) : n \in DOMAIN bs}

TxsOf(bs) == UNION {{bs[n].Transactions[m] : m \in DOMAIN bs[n].Transactions}
                    : n \in DOMAIN bs}

ReportedAbsent(db, kept, dropped) ==
    /\ \A sha \in HashesOf(dropped) \ HashesOf(kept) :
           /\ ExistsShaResult(db, sha).val = FALSE
           /\ FetchBlockByShaResult(db, sha).err = "ErrBlockNotFound"
    /\ \A hash \in TxsOf(dropped) \ TxsOf(kept) :
           /\ ExistsTxShaResult(db, hash).val = FALSE
           /\ FetchTxByShaResult(db, hash).err = "ErrTxShaMissing"

C3_InsertRollbackRoundTrip ==
    [][\A sha \in DOMAIN blocksBySha :
          (~closed /\ InsertedOnly /\ DropStep(sha)) =>
              LET r == DropAfterBlockByShaResult(StoreNow, sha)
                  k == blocksBySha[sha]
                  kept == SubSeq(blocks, 1, k + 1)
                  dropped == SubSeq(blocks, k + 2, Len(blocks))
              IN  /\ r.err = "nil"
                  /\ r.db = Replay(kept)
                  /\ ReportedAbsent(r.db, kept, dropped)]_vars

(***************************************************************************)
(* C4.  Spend consistency.  As claimed: in every state of an open store,   *)
(* a spent flag of the most recent version of a stored transaction is set  *)
(* if and only if a stored block at a greater height holds an input with   *)
(* that outpoint.                                                          *)
(***************************************************************************)
\* The stored block at height h holds an input with outpoint (hash, index).
HoldsInput(h, hash, index) ==
    \E n \in DOMAIN blocks[h + 1].Transactions :
        \E k \in DOMAIN MsgTx[blocks[h + 1].Transactions[n]].TxIn :
            MsgTx[blocks[h + 1].Transactions[n]].TxIn[k] = OutPoint(hash, index)

\* ... as an input InsertBlock spends.
HoldsSpendingInput(h, hash, index) ==
    \E nk \in SpendingInputs(blocks[h + 1].Transactions) :
        InputAt(blocks[h + 1].Transactions, nk) = OutPoint(hash, index)

Outputs(hash) == 0..(Len(mostRecent(txns, hash).spentBuf) - 1)

Spent(hash, index) == mostRecent(txns, hash).spentBuf[index + 1]

C4_SpendConsistency ==
    ~closed =>
        \A hash \in DOMAIN txns : \A index \in Outputs(hash) :
            Spent(hash, index) <=>
                \E h \in (mostRecent(txns, hash).blockHeight + 1)..(Len(blocks) - 1) :
                    HoldsInput(h, hash, index)

\* C4, amended: a set spent flag of the most recent version of a stored
\* transaction has a spender: a stored block at that version's height or
\* above holds a non-coinbase input of a non-coinbase transaction with that
\* outpoint.
C4_SpentHasSpender ==
    ~closed =>
        \A hash \in DOMAIN txns : \A index \in Outputs(hash) :
            Spent(hash, index) =>
                \E h \in mostRecent(txns, hash).blockHeight..(Len(blocks) - 1) :
                    HoldsSpendingInput(h, hash, index)

\* A rollback has removed a block and left a spent output behind.
C4_Witness ==
    /\ last = [op |-> "DropAfterBlockBySha", err |-> "nil"]
    /\ \E sha \in DOMAIN blocksBySha : blocksBySha[sha] >= Len(blocks)
    /\ \E hash \in DOMAIN txns : \E index \in Outputs(hash) : Spent(hash, index)

(***************************************************************************)
(* C5.  For every hash of the tx map, every version but possibly the last   *)
(* is fully spent, and the list of versions is never empty.                *)
(***************************************************************************)
C5_OnlyLastVersionUnspent ==
    \A hash \in DOMAIN txns :
        /\ Len(txns[hash]) > 0
        /\ \A n \in 1..(Len(txns[hash]) - 1) : isFullySpent(txns[hash][n])

(***************************************************************************)
(* C6.  In every state of an open store the block vector has as many       *)
(* blocks as the hash map has entries, and every height of the map is an   *)
(* index of the vector whose block has that hash.                          *)
(***************************************************************************)
C6_HashMapMatchesBlocks ==
    ~closed =>
        /\ Len(blocks) = Cardinality(DOMAIN blocksBySha)
        /\ \A sha \in DOMAIN blocksBySha :
               /\ blocksBySha[sha] \in 0..(Len(blocks) - 1)
               /\ BlockHash(blocks[blocksBySha[sha] + 1]) = sha

(***************************************************************************)
(* C7.  Closed is absorbing.  As claimed: once the store is closed it      *)
(* stays closed, and every later operation returns ErrDbClosed and changes *)
(* no state.                                                               *)
(***************************************************************************)
C7_ClosedAbsorbing ==
    [][closed => /\ closed'
                 /\ UNCHANGED dbVars
                 /\ last'.err = "ErrDbClosed"]_vars

AddrIndexOps == {"FetchAddrIndexTip", "UpdateAddrIndexForBlock",
                 "FetchTxsForAddr", "FetchUtxosForAddrs", "DeleteAddrIndex"}

TxListOps == {"FetchTxByShaList", "FetchUnSpentTxByShaList"}

\* What a call of op returns on a closed store.
ErrWhenClosed(op) ==
    IF op \in AddrIndexOps THEN "ErrNotImplemented"
    ELSE IF op \in TxListOps THEN "none"
    ELSE "ErrDbClosed"

AllDbClosed(replyList, txShaList) ==
    /\ Len(replyList) = Len(txShaList)
    /\ \A n \in DOMAIN replyList :
           replyList[n] = [Sha |-> txShaList[n], Err |-> "ErrDbClosed"]

\* C7, amended: once the store is closed it stays closed and no operation
\* changes its state; InsertBlock, DropAfterBlockBySha, the read operations,
\* Sync, Close and RollbackClose return ErrDbClosed; the two tx-list fetches
\* return no error of their own but one reply per requested hash, each
\* carrying ErrDbClosed; the address-index operations return
\* ErrNotImplemented.
C7_ClosedAbsorbingByKind ==
    /\ [][closed => /\ closed'
                    /\ UNCHANGED dbVars
                    /\ last'.err = ErrWhenClosed(last'.op)]_vars
    /\ [](closed => \A txShaList \in TxLists :
             /\ AllDbClosed(FetchTxByShaListResult(StoreNow, txShaList).val,
                            txShaList)
             /\ AllDbClosed(FetchUnSpentTxByShaListResult(StoreNow, txShaList).val,
                            txShaList))

\* An insert has been refused by a closed store.
C7_Witness ==
    closed /\ last = [op |-> "InsertBlock", err |-> "ErrDbClosed"]

(***************************************************************************)
(* C8.  InsertBlock never refuses the first block of an empty store for    *)
(* its previous hash and stores it at height 0; on a non-empty store it    *)
(* returns ErrPrevShaMissing, with the store unchanged, whenever the       *)
(* previous hash of the block is not the hash of a block of the block      *)
(* vector, the hash of a block removed by DropAfterBlockBySha included.    *)
(***************************************************************************)
C8_PrevShaMissing ==
    [][\A msgBlock \in BlockInputs :
          ( /\ ~closed
            /\ Len(blocks) = 0 \/ msgBlock.Previous \notin HashesOf(blocks)
            /\ InsertBlockStep(msgBlock) ) =>
              /\ Len(blocks) = 0 =>
                     /\ last'.err # "ErrPrevShaMissing"
                     /\ last'.err = "nil" =>
                            /\ InsertBlockResult(StoreNow, msgBlock).val = 0
                            /\ blocks' = <<msgBlock>>
              /\ (Len(blocks) > 0 /\ msgBlock.Previous \notin HashesOf(blocks)) =>
                     /\ last'.err = "ErrPrevShaMissing"
                     /\ UNCHANGED dbVars]_vars

(***************************************************************************)
(* C9.  InsertBlock returns ErrTxShaMissing, with the store unchanged, for *)
(* a block with a non-coinbase input whose previous hash is a stored       *)
(* transaction, not one of the block, and whose previous index is no index *)
(* of the spent flags of the most recent version of that transaction.      *)
(***************************************************************************)
\* The input nk of the block is such an input, in the first transaction of
\* the block that fails a check.
StoredOutOfRange(db, msgBlock, nk) ==
    LET prevOut == InputAt(msgBlock.Transactions, nk)
    IN  /\ prevOut.Hash \notin TxsOf(<<msgBlock>>)
        /\ prevOut.Hash \in DOMAIN db.txns
        /\ prevOut.Index >= Len(mostRecent(db.txns, prevOut.Hash).spentBuf)
        /\ \A m \in 1..(nk[1] - 1) :
               checkTx(db, msgBlock.Transactions, m - 1) = "nil"

C9_IndexRangeChecked ==
    [][\A msgBlock \in BlockInputs :
          ( /\ ~closed
            /\ ~prevShaMissing(StoreNow, msgBlock)
            /\ \E nk \in SpendingInputs(msgBlock.Transactions) :
                   StoredOutOfRange(StoreNow, msgBlock, nk)
            /\ InsertBlockStep(msgBlock) )
          => /\ last'.err = "ErrTxShaMissing"
             /\ UNCHANGED dbVars]_vars

(***************************************************************************)
(* C10.  References within one block.  As claimed: a block with a          *)
(* non-coinbase input, in the transaction at index i, whose previous hash  *)
(* is a transaction of the block at no index below i, or is neither in the *)
(* block nor in the tx map, makes InsertBlock return ErrTxShaMissing with  *)
(* the store unchanged.                                                    *)
(***************************************************************************)
\* The positions of hash in a transaction list, 0-based.
IndexesOf(transactions, hash) ==
    {n - 1 : n \in {n \in DOMAIN transactions : transactions[n] = hash}}

NonCoinbaseInputs(transactions) ==
    UNION {{<<n, k>> : k \in {k \in DOMAIN MsgTx[transactions[n]].TxIn :
                                 ~isCoinbaseInput(MsgTx[transactions[n]].TxIn[k])}}
           : n \in DOMAIN transactions}

Max(S) == CHOOSE x \in S : \A y \in S : y <= x

\* The input nk references a transaction the block holds at no index below
\* the referencing one, or one that is neither in the block nor stored.
BadReference(db, transactions, nk) ==
    LET hash == InputAt(transactions, nk).Hash
        js == IndexesOf(transactions, hash)
    IN  IF js # {} THEN \A j \in js : j >= nk[1] - 1
        ELSE hash \notin DOMAIN db.txns

C10_ReferenceOrder ==
    [][\A msgBlock \in BlockInputs :
          ( /\ ~closed
            /\ ~prevShaMissing(StoreNow, msgBlock)
            /\ \E nk \in NonCoinbaseInputs(msgBlock.Transactions) :
                   BadReference(StoreNow, msgBlock.Transactions, nk)
            /\ InsertBlockStep(msgBlock) )
          => /\ last'.err = "ErrTxShaMissing"
             /\ UNCHANGED dbVars]_vars

\* The reference of input nk as InsertBlock sees it: the block's last
\* transaction with the referenced hash counts.
LateReference(db, transactions, nk) ==
    LET hash == InputAt(transactions, nk).Hash
        js == IndexesOf(transactions, hash)
    IN  IF js # {} THEN Max(js) >= nk[1] - 1
        ELSE hash \notin DOMAIN db.txns

\* No transaction before the one of input nk fails a check.
FirstToFail(db, transactions, nk) ==
    \A m \in 1..(nk[1] - 1) : checkTx(db, transactions, m - 1) = "nil"

\* The blocks that extend the newest block of the store.
TipBlocks ==
    LET tip == IF Len(blocks) = 0 THEN zeroHash
               ELSE BlockHash(blocks[Len(blocks)])
    IN  {MsgBlock(tip, transactions) : transactions \in TxLists}

\* C10, amended: when a non-coinbase input of a non-coinbase transaction at
\* index i references a transaction whose last position in the block is
\* j >= i, or one that is neither in the block nor in the tx map, and no
\* transaction before index i fails a check, InsertBlock returns
\* ErrTxShaMissing with the store unchanged; when every such input
\* references a transaction whose last position in the block is below its
\* own, InsertBlock does not return ErrTxShaMissing.  Stated of the blocks
\* that extend the newest block, in every state of an open store.
C10_ReferenceOrderFirstFailure ==
    \A msgBlock \in TipBlocks :
        (~closed /\ ~prevShaMissing(StoreNow, msgBlock)) =>
            LET txs == msgBlock.Transactions
                r == InsertBlockResult(StoreNow, msgBlock)
            IN  /\ (\E nk \in SpendingInputs(txs) :
                        /\ LateReference(StoreNow, txs, nk)
                        /\ FirstToFail(StoreNow, txs, nk))
                    => (r.err = "ErrTxShaMissing" /\ r.db = StoreNow)
                /\ (\A nk \in SpendingInputs(txs) :
                        /\ IndexesOf(txs, InputAt(txs, nk).Hash) # {}
                        /\ ~LateReference(StoreNow, txs, nk))
                    => r.err # "ErrTxShaMissing"

\* InsertBlock has refused a block, and a block whose first transaction
\* spends an output of its second one is refused in this state.
C10_Witness ==
    /\ last = [op |-> "InsertBlock", err |-> "ErrTxShaMissing"]
    /\ ~closed
    /\ \E msgBlock \in TipBlocks :
           /\ ~prevShaMissing(StoreNow, msgBlock)
           /\ \E nk \in SpendingInputs(msgBlock.Transactions) :
                  /\ nk[1] = 1
                  /\ IndexesOf(msgBlock.Transactions,
                               InputAt(msgBlock.Transactions, nk).Hash) = {1}
           /\ InsertBlockResult(StoreNow, msgBlock).err = "ErrTxShaMissing"

(***************************************************************************)
(* C11.  Duplicates across blocks.  As claimed: InsertBlock returns        *)
(* ErrDuplicateSha, with the store unchanged, when a transaction of the    *)
(* block has a hash whose most recent stored version is not fully spent;   *)
(* when the block passes every check and the most recent stored version of *)
(* one of its transactions is fully spent, the block is accepted and one   *)
(* new version with all flags false follows the old ones.                  *)
(***************************************************************************)
StoredUnspent(db, hash) ==
    hash \in DOMAIN db.txns /\ ~isFullySpent(mostRecent(db.txns, hash))

StoredSpent(db, hash) ==
    hash \in DOMAIN db.txns /\ isFullySpent(mostRecent(db.txns, hash))

AllFalse(spentBuf) == \A n \in DOMAIN spentBuf : ~spentBuf[n]

C11_DuplicateAcrossBlocks ==
    [][\A msgBlock \in BlockInputs :
          ( /\ ~closed
            /\ ~prevShaMissing(StoreNow, msgBlock)
            /\ InsertBlockStep(msgBlock) ) =>
              LET txs == msgBlock.Transactions
              IN  /\ (\E n \in DOMAIN txs : StoredUnspent(StoreNow, txs[n]))
                      => /\ last'.err = "ErrDuplicateSha"
                         /\ UNCHANGED dbVars
                  /\ \A n \in DOMAIN txs :
                         ( /\ checkTransactions(StoreNow, txs, 0) = "nil"
                           /\ StoredSpent(StoreNow, txs[n]) )
                         => /\ last'.err = "nil"
                            /\ Len(txns'[txs[n]]) = Len(txns[txs[n]]) + 1
                            /\ SubSeq(txns'[txs[n]], 1, Len(txns[txs[n]]))
                                   = txns[txs[n]]
                            /\ AllFalse(mostRecent(txns', txs[n]).spentBuf)]_vars

\* The versions InsertBlock(msgBlock) appended for hash.
NewVersions(db, after, hash) ==
    SubSeq(after.txns[hash], Versions(db.txns, hash) + 1, Len(after.txns[hash]))

\* Every set flag of a new version of hash is an output the block spends.
SpentInBlockOnly(db, after, msgBlock, hash) ==
    \A v \in DOMAIN NewVersions(db, after, hash) :
        \A index \in 0..(Len(NewVersions(db, after, hash)[v].spentBuf) - 1) :
            NewVersions(db, after, hash)[v].spentBuf[index + 1] =>
                \E nk \in SpendingInputs(msgBlock.Transactions) :
                    InputAt(msgBlock.Transactions, nk) = OutPoint(hash, index)

\* C11, amended: when the transaction at index i of the block has a hash
\* whose most recent stored version is not fully spent, its own inputs pass
\* their checks and no transaction before it fails a check, InsertBlock
\* returns ErrDuplicateSha with the store unchanged (a failing input of that
\* or of an earlier transaction returns ErrTxShaMissing instead, the store
\* unchanged as well).  When every stored hash among the transactions of a
\* block without repeated transactions has a fully spent most recent
\* version, InsertBlock does not return ErrDuplicateSha; and whenever
\* InsertBlock accepts a block, it leaves the stored versions of each of
\* its transactions as they were and appends one version per occurrence
\* after them, whose flags are false except for the outputs spent by the
\* transactions of this same block.  Stated of the blocks that extend the
\* newest block, in every state of an open store.
C11_DuplicateAcrossBlocksFirstFailure ==
    \A msgBlock \in TipBlocks :
        (~closed /\ ~prevShaMissing(StoreNow, msgBlock)) =>
            LET txs == msgBlock.Transactions
                r == InsertBlockResult(StoreNow, msgBlock)
            IN  /\ \A n \in DOMAIN txs :
                       ( /\ StoredUnspent(StoreNow, txs[n])
                         /\ checkTxIns(StoreNow, txs, n - 1, 1) = "nil"
                         /\ \A m \in 1..(n - 1) :
                                checkTx(StoreNow, txs, m - 1) = "nil" )
                       => (r.err = "ErrDuplicateSha" /\ r.db = StoreNow)
                /\ (\E n \in DOMAIN txs : StoredUnspent(StoreNow, txs[n]))
                       => (r.err \in {"ErrDuplicateSha", "ErrTxShaMissing"}
                           /\ r.db = StoreNow)
                /\ ( /\ ~HasDuplicateTx(msgBlock)
                     /\ \A n \in DOMAIN txs : ~StoredUnspent(StoreNow, txs[n]) )
                       => r.err # "ErrDuplicateSha"
                /\ r.err = "nil" =>
                       \A n \in DOMAIN txs :
                           /\ Len(r.db.txns[txs[n]]) =
                                  Versions(txns, txs[n]) + Occurrences(txs, txs[n])
                           /\ SubSeq(r.db.txns[txs[n]], 1, Versions(txns, txs[n]))
                                  = (IF txs[n] \in DOMAIN txns
                                     THEN txns[txs[n]] ELSE <<>>)
                           /\ SpentInBlockOnly(StoreNow, r.db, msgBlock, txs[n])

\* A transaction has been inserted again after its first version was spent.
C11_Witness ==
    /\ last = [op |-> "InsertBlock", err |-> "nil"]
    /\ \E hash \in DOMAIN txns :
           /\ Len(txns[hash]) = 2
           /\ isFullySpent(txns[hash][1])
           /\ txns[hash][2].blockHeight = Len(blocks) - 1

(***************************************************************************)
(* The peer set: threads, calls and returns.                               *)
(***************************************************************************)
Heights == {1, 2}

BlockHashes == {"h"}

TxShas == {"t"}

\* consensus.ServiceFlag values of a base peer: a full node, or not (SPV).
ServiceFlags == {{"SFFullNode"}, {}}

Persistents == {20, 60}

Transients == {0, 30}

\* Thread t is in no call.
Idle(t) == th[t].pc = "done"

\* The threads blocked in, or about to return from, ps.mtx.Lock().
SetLockPcs == {"addPeer_Lock", "removePeer_Lock", "addBanScore_Lock"}

BlockedInSetLock == {t \in Threads : th[t].pc \in SetLockPcs}

\* The threads blocked in, or about to return from, ps.mtx.RLock().
SetRLockPcs == {"getPeer_RLock", "bestPeer_RLock", "getPeerInfos_RLock",
                "broadcastNewStatus_RLock", "peersWithoutBlock_RLock",
                "peersWithoutTx_RLock"}

BlockedInSetRLock == {t \in Threads : th[t].pc \in SetRLockPcs}

\* The call of operation op by thread t begins at pc.
Begin(t, op, pc, id, p, arg) ==
    th' = [th EXCEPT ![t] = [NoCall EXCEPT !.op = op, !.pc = pc, !.id = id,
                                           !.p = p, !.arg = arg]]

\* The state of a thread that returns from the function it is in: to the
\* caller's next step, or to the end of the call.
Returned(s) ==
    IF s.stack = <<>> THEN [s EXCEPT !.pc = "return", !.todo = {}]
    ELSE [s EXCEPT !.pc = Head(s.stack), !.stack = Tail(s.stack)]

\* The state of a thread whose function ends with a call of the one at pc.
TailCalled(s, pc) == [s EXCEPT !.pc = pc]

\* The call is over: the thread forgets it.
return(t) ==
    /\ th[t].pc = "return"
    /\ th' = [th EXCEPT ![t] = NoCall]
    /\ UNCHANGED <<vars, scriptVars, peers, heap, psMtx>>

\* The state of a thread that calls a function at pc and comes back at back.
Called(s, pc, back) == [s EXCEPT !.pc = pc, !.stack = <<back>> \o s.stack]

Logged(s, entry) == [s EXCEPT !.log = Append(s.log, entry)]

(***************************************************************************)
(* peerSet.addPeer                                                         *)
(***************************************************************************)
\* addPeer with a height among heights, as long as fewer than cap peers
\* were ever added.
addPeerOf(t, heights, cap) ==
    /\ Idle(t)
    /\ Len(heap) + Cardinality({u \in Threads : th[u].op = "addPeer"
                                               /\ ~Idle(u)}) < cap
    /\ \E id \in PeerIDs, height \in heights, services \in ServiceFlags :
           Begin(t, "addPeer", "addPeer_Lock", id, 0,
                 [height |-> height, hash |-> "h", services |-> services])
    /\ UNCHANGED <<vars, scriptVars, peers, heap, psMtx>>

addPeer(t) == addPeerOf(t, Heights, MaxPeers)

\* addPeer where the height does not matter.
addPeerAnyHeight(t) == addPeerOf(t, {1}, MaxPeers)

\* addPeer of the only peer of a peer set.
addOnlyPeer(t) == addPeerOf(t, {1}, 1)

addPeer_Lock(t) ==
    /\ th[t].pc = "addPeer_Lock"
    /\ CanLock(psMtx)
    /\ psMtx' = Lock(psMtx, t)
    /\ th' = [th EXCEPT ![t].pc = "addPeer_insert"]
    /\ UNCHANGED <<vars, scriptVars, peers, heap>>

\* An addPeer that replaces the record of a registered id.
addPeer_insertAlways(t) ==
    /\ th[t].pc = "addPeer_insert"
    /\ heap' = Append(heap, newPeer(th[t].arg.height, th[t].arg.hash,
                                    th[t].id, th[t].arg.services))
    /\ peers' = mapPut(peers, th[t].id, Len(heap) + 1)
    /\ psMtx' = Unlock(psMtx, BlockedInSetRLock)
    /\ th' = [th EXCEPT ![t] = Returned(th[t])]
    /\ UNCHANGED <<vars, scriptVars>>

\* The insertion, or the warning, and the deferred Unlock.
addPeer_insert(t) ==
    /\ th[t].pc = "addPeer_insert"
    /\ IF th[t].id \notin DOMAIN peers
       THEN /\ heap' = Append(heap, newPeer(th[t].arg.height, th[t].arg.hash,
                                            th[t].id, th[t].arg.services))
            /\ peers' = mapPut(peers, th[t].id, Len(heap) + 1)
       ELSE UNCHANGED <<peers, heap>>
    /\ psMtx' = Unlock(psMtx, BlockedInSetRLock)
    /\ th' = [th EXCEPT ![t] = Returned(th[t])]
    /\ UNCHANGED <<vars, scriptVars>>

(***************************************************************************)
(* peerSet.removePeer                                                      *)
(***************************************************************************)
removePeer(t) ==
    /\ Idle(t)
    /\ \E id \in PeerIDs :
           Begin(t, "removePeer", "removePeer_Lock", id, 0, <<>>)
    /\ UNCHANGED <<vars, scriptVars, peers, heap, psMtx>>

removePeer_Lock(t) ==
    /\ th[t].pc = "removePeer_Lock"
    /\ CanLock(psMtx)
    /\ psMtx' = Lock(psMtx, t)
    /\ th' = [th EXCEPT ![t].pc = "removePeer_delete"]
    /\ UNCHANGED <<vars, scriptVars, peers, heap>>

\* A removePeer that returns after the deletion.
removePeer_deleteOnly(t) ==
    /\ th[t].pc = "removePeer_delete"
    /\ peers' = mapDelete(peers, th[t].id)
    /\ psMtx' = Unlock(psMtx, BlockedInSetRLock)
    /\ th' = [th EXCEPT ![t] =
                 Returned(Logged(th[t], <<"delete", th[t].id,
                                          th[t].id \in DOMAIN peers>>))]
    /\ UNCHANGED <<vars, scriptVars, heap>>

\* delete(ps.peers, peerID) and Unlock; the log keeps whether a peer went.
removePeer_delete(t) ==
    /\ th[t].pc = "removePeer_delete"
    /\ peers' = mapDelete(peers, th[t].id)
    /\ psMtx' = Unlock(psMtx, BlockedInSetRLock)
    /\ th' = [th EXCEPT ![t] =
                 [Logged(th[t], <<"delete", th[t].id, th[t].id \in DOMAIN peers>>)
                      EXCEPT !.pc = "removePeer_Stop"]]
    /\ UNCHANGED <<vars, scriptVars, heap>>

removePeer_Stop(t) ==
    /\ th[t].pc = "removePeer_Stop"
    /\ th' = [th EXCEPT ![t] =
                 Returned(Logged(th[t], <<"StopPeerGracefully", th[t].id>>))]
    /\ UNCHANGED <<vars, scriptVars, peers, heap, psMtx>>

(***************************************************************************)
(* peerSet.getPeer                                                         *)
(***************************************************************************)
getPeer(t) ==
    /\ Idle(t)
    /\ \E id \in PeerIDs : Begin(t, "getPeer", "getPeer_RLock", id, 0, <<>>)
    /\ UNCHANGED <<vars, scriptVars, peers, heap, psMtx>>

getPeer_RLock(t) ==
    /\ th[t].pc = "getPeer_RLock"
    /\ CanRLock(psMtx, t, BlockedInSetLock)
    /\ psMtx' = RLock(psMtx, t)
    /\ th' = [th EXCEPT ![t].pc = "getPeer_read"]
    /\ UNCHANGED <<vars, scriptVars, peers, heap>>

\* return ps.peers[id], 0 for nil, and the deferred RUnlock.
getPeer_read(t) ==
    /\ th[t].pc = "getPeer_read"
    /\ psMtx' = RUnlock(psMtx, t)
    /\ th' = [th EXCEPT ![t] =
                 Returned([th[t] EXCEPT !.p = IF th[t].id \in DOMAIN peers
                                              THEN peers[th[t].id] ELSE 0])]
    /\ UNCHANGED <<vars, scriptVars, peers, heap>>

(***************************************************************************)
(* trust.DynamicBanScore, peer.addBanScore and peerSet.addBanScore         *)
(***************************************************************************)
\* What is left of a transient score when it is read: it decays with time.
Decayed(transient) == {0, transient}

\* DynamicBanScore.Increase: the new score, its transient part decayed to
\* left before the addition.
Increase(banScore, persistent, transient, left) ==
    [persistent |-> banScore.persistent + persistent,
     transient |-> left + transient]

Score(banScore) == banScore.persistent + banScore.transient

\* if score >= defaultBanThreshold
banAtThreshold(score) == score >= defaultBanThreshold

\* if score > defaultBanThreshold
ban(score) == score > defaultBanThreshold

\* The sum of what the calls in progress of the threads of set S add to
\* ban scores.
RECURSIVE Pending(_)
Pending(S) ==
    IF S = {} THEN 0
    ELSE LET u == CHOOSE x \in S : TRUE
         IN  Pending(S \ {u})
             + IF th[u].op \in {"addBanScore", "errorHandler",
                                "peer.addBanScore"}
               THEN th[u].arg.persistent + th[u].arg.transient ELSE 0

\* The score of peer p (0: none) stays within MaxScore when amount and
\* what the other threads are adding are added to it.
ScoreRoom(t, p, amount) ==
    p # 0 => Score(heap[p].banScore) + amount + Pending(Threads \ {t})
                 <= MaxScore

\* The peer registered as id, 0 for none.
Registered(id) == IF id \in DOMAIN peers THEN peers[id] ELSE 0

addBanScore(t) ==
    /\ Idle(t)
    /\ \E id \in PeerIDs, persistent \in Persistents, transient \in Transients :
           /\ ScoreRoom(t, Registered(id), persistent + transient)
           /\ Begin(t, "addBanScore", "addBanScore_Lock", id, 0,
                    [persistent |-> persistent, transient |-> transient])
    /\ UNCHANGED <<vars, scriptVars, peers, heap, psMtx>>

addBanScore_Lock(t) ==
    /\ th[t].pc = "addBanScore_Lock"
    /\ CanLock(psMtx)
    /\ psMtx' = Lock(psMtx, t)
    /\ th' = [th EXCEPT ![t].pc = "addBanScore_lookup"]
    /\ UNCHANGED <<vars, scriptVars, peers, heap>>

\* peer := ps.peers[peerID], Unlock, and the return when there is no peer.
addBanScore_lookup(t) ==
    /\ th[t].pc = "addBanScore_lookup"
    /\ psMtx' = Unlock(psMtx, BlockedInSetRLock)
    /\ th' = [th EXCEPT ![t] =
                 IF th[t].id \in DOMAIN peers
                 THEN Called([th[t] EXCEPT !.p = peers[th[t].id]],
                             "peer_addBanScore", "addBanScore_ban")
                 ELSE Returned(th[t])]
    /\ UNCHANGED <<vars, scriptVars, peers, heap>>

\* peer.addBanScore: the score is raised and compared; ok is its result.
peer_addBanScore(t) ==
    /\ th[t].pc = "peer_addBanScore"
    /\ \E left \in Decayed(heap[th[t].p].banScore.transient) :
           LET banScore == Increase(heap[th[t].p].banScore,
                                    th[t].arg.persistent, th[t].arg.transient,
                                    left)
           IN  /\ heap' = [heap EXCEPT ![th[t].p].banScore = banScore]
               /\ th' = [th EXCEPT ![t] =
                            Returned([th[t] EXCEPT !.ok = ban(Score(banScore))])]
    /\ UNCHANGED <<vars, scriptVars, peers, psMtx>>

\* A ban that removes the peer without telling the transport.
addBanScore_banUnlisted(t) ==
    /\ th[t].pc = "addBanScore_ban"
    /\ th' = [th EXCEPT ![t] =
                 IF ~th[t].ok THEN Returned(th[t])
                 ELSE TailCalled(th[t], "removePeer_Lock")]
    /\ UNCHANGED <<vars, scriptVars, peers, heap, psMtx>>

\* After peer.addBanScore: return unless it said ban, else AddBannedPeer
\* with the peer's address and removePeer.
addBanScore_ban(t) ==
    /\ th[t].pc = "addBanScore_ban"
    /\ th' = [th EXCEPT ![t] =
                 IF ~th[t].ok THEN Returned(th[t])
                 ELSE TailCalled(Logged(th[t], <<"AddBannedPeer",
                                                 Addr(heap[th[t].p].ID)>>),
                                 "removePeer_Lock")]
    /\ UNCHANGED <<vars, scriptVars, peers, heap, psMtx>>

(***************************************************************************)
(* peerSet.errorHandler                                                    *)
(***************************************************************************)
Errors == {"errPeerMisbehave", "other"}

\* An error handler that removes the peer whatever the error.
errorHandlerRemoves(t) ==
    /\ Idle(t)
    /\ \E id \in PeerIDs, err \in Errors :
           th' = [th EXCEPT ![t] =
                     TailCalled([NoCall EXCEPT
                                    !.op = "errorHandler", !.id = id,
                                    !.arg = [persistent |-> 0, transient |-> 0,
                                             err |-> err]],
                                "removePeer_Lock")]
    /\ UNCHANGED <<vars, scriptVars, peers, heap, psMtx>>

\* The root of the error decides: addBanScore(peerID, 20, 0), or removePeer.
errorHandler(t) ==
    /\ Idle(t)
    /\ \E id \in PeerIDs, err \in Errors :
           IF err = "errPeerMisbehave"
           THEN /\ ScoreRoom(t, Registered(id), 20)
                /\ th' = [th EXCEPT ![t] =
                             TailCalled([NoCall EXCEPT
                                            !.op = "errorHandler", !.id = id,
                                            !.arg = [persistent |-> 20,
                                                     transient |-> 0,
                                                     err |-> err]],
                                        "addBanScore_Lock")]
           ELSE th' = [th EXCEPT ![t] =
                          TailCalled([NoCall EXCEPT
                                         !.op = "errorHandler", !.id = id,
                                         !.arg = [persistent |-> 0,
                                                  transient |-> 0, err |-> err]],
                                     "removePeer_Lock")]
    /\ UNCHANGED <<vars, scriptVars, peers, heap, psMtx>>

(***************************************************************************)
(* peer.markBlock, peer.markTransaction and the scans of the known sets    *)
(***************************************************************************)
\* The threads blocked in, or about to return from, p.mtx.Lock().
PeerLockPcs == {"markBlock_Lock", "markTransaction_Lock", "setStatus_Lock",
                "addFilterAddress_Lock"}

BlockedInPeerLock(p) == {t \in Threads : th[t].pc \in PeerLockPcs /\ th[t].p = p}

\* The threads blocked in, or about to return from, p.mtx.RLock().
BlockedInPeerRLock(p) ==
    {t \in Threads : th[t].pc = "getPeerInfo_RLock" /\ th[t].p = p}

isSPVNode(p) == "SFFullNode" \notin heap[p].services

\* The body of isRelatedTx is commented out: it returns false.
\* An isRelatedTx for which a peer with filter addresses is related.
isRelatedToFilter(p, tx) == heap[p].filterAdds # {}

isRelatedTx(p, tx) == FALSE

\* What may be left of a known set after Pop while its size is max or more.
RECURSIVE Pop(_, _)
Pop(known, max) ==
    IF Cardinality(known) < max THEN {known}
    ELSE UNION {Pop(known \ {x}, max) : x \in known}

markBlock(t) ==
    /\ Idle(t)
    /\ \E p \in DOMAIN heap, hash \in BlockHashes :
           Begin(t, "markBlock", "markBlock_Lock", "", p, [hash |-> hash])
    /\ UNCHANGED <<vars, scriptVars, peers, heap, psMtx>>

markBlock_Lock(t) ==
    /\ th[t].pc = "markBlock_Lock"
    /\ CanLock(heap[th[t].p].mtx)
    /\ heap' = [heap EXCEPT ![th[t].p].mtx = Lock(@, t)]
    /\ th' = [th EXCEPT ![t].pc = "markBlock_add"]
    /\ UNCHANGED <<vars, scriptVars, peers, psMtx>>

\* Pop while the set is full, Add, and the deferred Unlock.
markBlock_add(t) ==
    /\ th[t].pc = "markBlock_add"
    /\ \E known \in Pop(heap[th[t].p].knownBlocks, maxKnownBlocks) :
           heap' = [heap EXCEPT ![th[t].p].knownBlocks =
                                    known \cup {th[t].arg.hash},
                                ![th[t].p].mtx = Unlock(@, BlockedInPeerRLock(th[t].p))]
    /\ th' = [th EXCEPT ![t] = Returned(th[t])]
    /\ UNCHANGED <<vars, scriptVars, peers, psMtx>>

markTransaction(t) ==
    /\ Idle(t)
    /\ \E p \in DOMAIN heap, hash \in TxShas :
           Begin(t, "markTransaction", "markTransaction_Lock", "", p,
                 [hash |-> hash])
    /\ UNCHANGED <<vars, scriptVars, peers, heap, psMtx>>

markTransaction_Lock(t) ==
    /\ th[t].pc = "markTransaction_Lock"
    /\ CanLock(heap[th[t].p].mtx)
    /\ heap' = [heap EXCEPT ![th[t].p].mtx = Lock(@, t)]
    /\ th' = [th EXCEPT ![t].pc = "markTransaction_add"]
    /\ UNCHANGED <<vars, scriptVars, peers, psMtx>>

\* A markTransaction whose deferred Unlock is missing.
markTransaction_addKeepsLock(t) ==
    /\ th[t].pc = "markTransaction_add"
    /\ \E known \in Pop(heap[th[t].p].knownTxs, maxKnownTxs) :
           heap' = [heap EXCEPT ![th[t].p].knownTxs =
                                    known \cup {th[t].arg.hash}]
    /\ th' = [th EXCEPT ![t] = Returned(th[t])]
    /\ UNCHANGED <<vars, scriptVars, peers, psMtx>>

markTransaction_add(t) ==
    /\ th[t].pc = "markTransaction_add"
    /\ \E known \in Pop(heap[th[t].p].knownTxs, maxKnownTxs) :
           heap' = [heap EXCEPT ![th[t].p].knownTxs =
                                    known \cup {th[t].arg.hash},
                                ![th[t].p].mtx = Unlock(@, BlockedInPeerRLock(th[t].p))]
    /\ th' = [th EXCEPT ![t] = Returned(th[t])]
    /\ UNCHANGED <<vars, scriptVars, peers, psMtx>>

peersWithoutBlock_RLock(t) ==
    /\ th[t].pc = "peersWithoutBlock_RLock"
    /\ CanRLock(psMtx, t, BlockedInSetLock)
    /\ psMtx' = RLock(psMtx, t)
    /\ th' = [th EXCEPT ![t].pc = "peersWithoutBlock_scan"]
    /\ UNCHANGED <<vars, scriptVars, peers, heap>>

\* The registered peers whose known blocks lack the hash; the known sets
\* are read without the peers' locks; the deferred RUnlock.
peersWithoutBlock_scan(t) ==
    /\ th[t].pc = "peersWithoutBlock_scan"
    /\ psMtx' = RUnlock(psMtx, t)
    /\ th' = [th EXCEPT ![t] =
                 Returned([th[t] EXCEPT !.todo =
                     {peers[id] : id \in {i \in DOMAIN peers :
                         th[t].arg.hash \notin heap[peers[i]].knownBlocks}}])]
    /\ UNCHANGED <<vars, scriptVars, peers, heap>>

peersWithoutTx_RLock(t) ==
    /\ th[t].pc = "peersWithoutTx_RLock"
    /\ CanRLock(psMtx, t, BlockedInSetLock)
    /\ psMtx' = RLock(psMtx, t)
    /\ th' = [th EXCEPT ![t].pc = "peersWithoutTx_scan"]
    /\ UNCHANGED <<vars, scriptVars, peers, heap>>

peersWithoutTx_scan(t) ==
    /\ th[t].pc = "peersWithoutTx_scan"
    /\ psMtx' = RUnlock(psMtx, t)
    /\ th' = [th EXCEPT ![t] =
                 Returned([th[t] EXCEPT !.todo =
                     {peers[id] : id \in {i \in DOMAIN peers :
                         th[t].arg.hash \notin heap[peers[i]].knownTxs}}])]
    /\ UNCHANGED <<vars, scriptVars, peers, heap>>

(***************************************************************************)
(* peerSet.broadcastMinedBlock, broadcastNewStatus and broadcastTx.  The   *)
(* slice of target peers is the set todo; its order is the order of a map  *)
(* iteration, which is any order.                                          *)
(***************************************************************************)
\* The outcomes of the transport's non-blocking TrySend.
TrySend == BOOLEAN

broadcastMinedBlock(t) ==
    /\ Idle(t)
    /\ \E hash \in BlockHashes :
           th' = [th EXCEPT ![t] =
                     Called([NoCall EXCEPT !.op = "broadcastMinedBlock",
                                           !.arg = [hash |-> hash]],
                            "peersWithoutBlock_RLock",
                            "broadcastMinedBlock_loop")]
    /\ UNCHANGED <<vars, scriptVars, peers, heap, psMtx>>

\* A broadcastMinedBlock that sends to every peer of the slice.
broadcastMinedBlock_loopAll(t) ==
    /\ th[t].pc = "broadcastMinedBlock_loop"
    /\ IF th[t].todo = {}
       THEN th' = [th EXCEPT ![t] = Returned(th[t])]
       ELSE \E p \in th[t].todo :
                th' = [th EXCEPT ![t] =
                          [th[t] EXCEPT !.todo = @ \ {p}, !.p = p,
                                        !.pc = "broadcastMinedBlock_TrySend"]]
    /\ UNCHANGED <<vars, scriptVars, peers, heap, psMtx>>

\* The next peer of the slice, SPV peers skipped; return nil at its end.
broadcastMinedBlock_loop(t) ==
    /\ th[t].pc = "broadcastMinedBlock_loop"
    /\ IF th[t].todo = {}
       THEN th' = [th EXCEPT ![t] = Returned(th[t])]
       ELSE \E p \in th[t].todo :
                th' = [th EXCEPT ![t] =
                          [th[t] EXCEPT !.todo = @ \ {p}, !.p = p,
                                        !.pc = IF isSPVNode(p) THEN @
                                               ELSE "broadcastMinedBlock_TrySend"]]
    /\ UNCHANGED <<vars, scriptVars, peers, heap, psMtx>>

\* TrySend: removePeer(peer.ID()) when it fails, markBlock(hash) otherwise.
broadcastMinedBlock_TrySend(t) ==
    /\ th[t].pc = "broadcastMinedBlock_TrySend"
    /\ \E ok \in TrySend :
           th' = [th EXCEPT ![t] =
                     LET s == Logged(th[t], <<"TrySend", th[t].p, ok>>)
                     IN  IF ok THEN Called(s, "markBlock_Lock",
                                           "broadcastMinedBlock_loop")
                         ELSE Called([s EXCEPT !.id = heap[s.p].ID],
                                     "removePeer_Lock",
                                     "broadcastMinedBlock_loop")]
    /\ UNCHANGED <<vars, scriptVars, peers, heap, psMtx>>

broadcastNewStatus(t) ==
    /\ Idle(t)
    /\ \E hash \in BlockHashes :
           Begin(t, "broadcastNewStatus", "broadcastNewStatus_RLock", "", 0,
                 [hash |-> hash])
    /\ UNCHANGED <<vars, scriptVars, peers, heap, psMtx>>

\* ps.mtx.RLock(), kept until the return, and the call of peersWithoutBlock.
broadcastNewStatus_RLock(t) ==
    /\ th[t].pc = "broadcastNewStatus_RLock"
    /\ CanRLock(psMtx, t, BlockedInSetLock)
    /\ psMtx' = RLock(psMtx, t)
    /\ th' = [th EXCEPT ![t] = Called(th[t], "peersWithoutBlock_RLock",
                                      "broadcastNewStatus_loop")]
    /\ UNCHANGED <<vars, scriptVars, peers, heap>>

\* The next peer of the slice; at its end return nil and the deferred
\* RUnlock.
broadcastNewStatus_loop(t) ==
    /\ th[t].pc = "broadcastNewStatus_loop"
    /\ IF th[t].todo = {}
       THEN /\ psMtx' = RUnlock(psMtx, t)
            /\ th' = [th EXCEPT ![t] = Returned(th[t])]
       ELSE /\ \E p \in th[t].todo :
                   th' = [th EXCEPT ![t] =
                             [th[t] EXCEPT !.todo = @ \ {p}, !.p = p,
                                           !.pc = "broadcastNewStatus_TrySend"]]
            /\ UNCHANGED psMtx
    /\ UNCHANGED <<vars, scriptVars, peers, heap>>

\* TrySend: removePeer(peer.ID()) when it fails, nothing otherwise.
broadcastNewStatus_TrySend(t) ==
    /\ th[t].pc = "broadcastNewStatus_TrySend"
    /\ \E ok \in TrySend :
           th' = [th EXCEPT ![t] =
                     LET s == Logged(th[t], <<"TrySend", th[t].p, ok>>)
                     IN  IF ok THEN [s EXCEPT !.pc = "broadcastNewStatus_loop"]
                         ELSE Called([s EXCEPT !.id = heap[s.p].ID],
                                     "removePeer_Lock",
                                     "broadcastNewStatus_loop")]
    /\ UNCHANGED <<vars, scriptVars, peers, heap, psMtx>>

broadcastTx(t) ==
    /\ Idle(t)
    /\ \E hash \in TxShas :
           th' = [th EXCEPT ![t] =
                     Called([NoCall EXCEPT !.op = "broadcastTx",
                                           !.arg = [hash |-> hash]],
                            "peersWithoutTx_RLock", "broadcastTx_loop")]
    /\ UNCHANGED <<vars, scriptVars, peers, heap, psMtx>>

\* The next peer of the slice, SPV peers without a related transaction
\* skipped; return nil at its end.
broadcastTx_loop(t) ==
    /\ th[t].pc = "broadcastTx_loop"
    /\ IF th[t].todo = {}
       THEN th' = [th EXCEPT ![t] = Returned(th[t])]
       ELSE \E p \in th[t].todo :
                th' = [th EXCEPT ![t] =
                          [th[t] EXCEPT !.todo = @ \ {p}, !.p = p,
                                        !.pc = IF /\ isSPVNode(p)
                                                  /\ ~isRelatedTx(p, th[t].arg.hash)
                                               THEN @
                                               ELSE "broadcastTx_TrySend"]]
    /\ UNCHANGED <<vars, scriptVars, peers, heap, psMtx>>

\* TrySend: removePeer(peer.ID()) when it fails, markTransaction(tx.Hash())
\* otherwise.
broadcastTx_TrySend(t) ==
    /\ th[t].pc = "broadcastTx_TrySend"
    /\ \E ok \in TrySend :
           th' = [th EXCEPT ![t] =
                     LET s == Logged(th[t], <<"TrySend", th[t].p, ok>>)
                     IN  IF ok THEN Called(s, "markTransaction_Lock",
                                           "broadcastTx_loop")
                         ELSE Called([s EXCEPT !.id = heap[s.p].ID],
                                     "removePeer_Lock", "broadcastTx_loop")]
    /\ UNCHANGED <<vars, scriptVars, peers, heap, psMtx>>

(***************************************************************************)
(* peerSet.getPeerInfos and peer.getPeerInfo                               *)
(***************************************************************************)
getPeerInfos(t) ==
    /\ Idle(t)
    /\ Begin(t, "getPeerInfos", "getPeerInfos_RLock", "", 0, <<>>)
    /\ UNCHANGED <<vars, scriptVars, peers, heap, psMtx>>

\* ps.mtx.RLock(), kept until the return; the map cannot change under it,
\* so the peers of the range loop are those registered now.
getPeerInfos_RLock(t) ==
    /\ th[t].pc = "getPeerInfos_RLock"
    /\ CanRLock(psMtx, t, BlockedInSetLock)
    /\ psMtx' = RLock(psMtx, t)
    /\ th' = [th EXCEPT ![t] = [th[t] EXCEPT !.pc = "getPeerInfos_loop",
                                             !.todo = {peers[id] : id \in DOMAIN peers}]]
    /\ UNCHANGED <<vars, scriptVars, peers, heap>>

\* A getPeerInfos whose deferred RUnlock is missing.
getPeerInfos_loopKeepsLock(t) ==
    /\ th[t].pc = "getPeerInfos_loop"
    /\ IF th[t].todo = {}
       THEN th' = [th EXCEPT ![t] = Returned(th[t])]
       ELSE \E p \in th[t].todo :
                th' = [th EXCEPT ![t] =
                          Called([th[t] EXCEPT !.todo = @ \ {p}, !.p = p],
                                 "getPeerInfo_RLock", "getPeerInfos_loop")]
    /\ UNCHANGED <<vars, scriptVars, peers, heap, psMtx>>

\* peer.getPeerInfo() of the next peer; at the end of the map return the
\* result and the deferred RUnlock.
getPeerInfos_loop(t) ==
    /\ th[t].pc = "getPeerInfos_loop"
    /\ IF th[t].todo = {}
       THEN /\ psMtx' = RUnlock(psMtx, t)
            /\ th' = [th EXCEPT ![t] = Returned(th[t])]
       ELSE /\ \E p \in th[t].todo :
                   th' = [th EXCEPT ![t] =
                             Called([th[t] EXCEPT !.todo = @ \ {p}, !.p = p],
                                    "getPeerInfo_RLock", "getPeerInfos_loop")]
            /\ UNCHANGED psMtx
    /\ UNCHANGED <<vars, scriptVars, peers, heap>>

getPeerInfo_RLock(t) ==
    /\ th[t].pc = "getPeerInfo_RLock"
    /\ CanRLock(heap[th[t].p].mtx, t, BlockedInPeerLock(th[t].p))
    /\ heap' = [heap EXCEPT ![th[t].p].mtx = RLock(@, t)]
    /\ th' = [th EXCEPT ![t].pc = "getPeerInfo_read"]
    /\ UNCHANGED <<vars, scriptVars, peers, psMtx>>

\* The PeerInfo of the peer, its height read, and the deferred RUnlock.
getPeerInfo_read(t) ==
    /\ th[t].pc = "getPeerInfo_read"
    /\ heap' = [heap EXCEPT ![th[t].p].mtx = RUnlock(@, t)]
    /\ th' = [th EXCEPT ![t] =
                 Returned(Logged(th[t], <<"PeerInfo", heap[th[t].p].ID,
                                          heap[th[t].p].height>>))]
    /\ UNCHANGED <<vars, scriptVars, peers, psMtx>>

(***************************************************************************)
(* peer.setStatus, sendBlock, sendBlocks, sendTransactions,                *)
(* addFilterAddresses and peerSet.bestPeer                                 *)
(***************************************************************************)
setStatus(t) ==
    /\ Idle(t)
    /\ \E p \in DOMAIN heap, height \in Heights, hash \in BlockHashes :
           Begin(t, "setStatus", "setStatus_Lock", "", p,
                 [height |-> height, hash |-> hash])
    /\ UNCHANGED <<vars, scriptVars, peers, heap, psMtx>>

setStatus_Lock(t) ==
    /\ th[t].pc = "setStatus_Lock"
    /\ CanLock(heap[th[t].p].mtx)
    /\ heap' = [heap EXCEPT ![th[t].p].mtx = Lock(@, t)]
    /\ th' = [th EXCEPT ![t].pc = "setStatus_write"]
    /\ UNCHANGED <<vars, scriptVars, peers, psMtx>>

setStatus_write(t) ==
    /\ th[t].pc = "setStatus_write"
    /\ heap' = [heap EXCEPT ![th[t].p].height = th[t].arg.height,
                            ![th[t].p].hash = th[t].arg.hash,
                            ![th[t].p].mtx = Unlock(@, BlockedInPeerRLock(th[t].p))]
    /\ th' = [th EXCEPT ![t] = Returned(th[t])]
    /\ UNCHANGED <<vars, scriptVars, peers, psMtx>>

\* The block lists and transaction lists sent to a peer.
BlockLists == {<<h>> : h \in BlockHashes}

TxShaLists == {<<x>> : x \in TxShas}

sendBlock(t) ==
    /\ Idle(t)
    /\ \E p \in DOMAIN heap, hash \in BlockHashes :
           Begin(t, "sendBlock", "sendBlock_TrySend", "", p, [hash |-> hash])
    /\ UNCHANGED <<vars, scriptVars, peers, heap, psMtx>>

sendBlock_TrySend(t) ==
    /\ th[t].pc = "sendBlock_TrySend"
    /\ \E ok \in TrySend :
           th' = [th EXCEPT ![t] =
                     LET s == [Logged(th[t], <<"TrySend", th[t].p, ok>>)
                                   EXCEPT !.ok = ok]
                     IN  IF ok THEN [s EXCEPT !.pc = "sendBlock_add"]
                         ELSE Returned(s)]
    /\ UNCHANGED <<vars, scriptVars, peers, heap, psMtx>>

\* p.knownBlocks.Add, with neither the peer's lock nor a Pop.
sendBlock_add(t) ==
    /\ th[t].pc = "sendBlock_add"
    /\ heap' = [heap EXCEPT ![th[t].p].knownBlocks = @ \cup {th[t].arg.hash}]
    /\ th' = [th EXCEPT ![t] = Returned(th[t])]
    /\ UNCHANGED <<vars, scriptVars, peers, psMtx>>

sendBlocks(t) ==
    /\ Idle(t)
    /\ \E p \in DOMAIN heap, blks \in BlockLists :
           Begin(t, "sendBlocks", "sendBlocks_TrySend", "", p,
                 [list |-> blks, i |-> 1])
    /\ UNCHANGED <<vars, scriptVars, peers, heap, psMtx>>

sendBlocks_TrySend(t) ==
    /\ th[t].pc = "sendBlocks_TrySend"
    /\ \E ok \in TrySend :
           th' = [th EXCEPT ![t] =
                     LET s == [Logged(th[t], <<"TrySend", th[t].p, ok>>)
                                   EXCEPT !.ok = ok]
                     IN  IF ok THEN [s EXCEPT !.pc = "sendBlocks_add"]
                         ELSE Returned(s)]
    /\ UNCHANGED <<vars, scriptVars, peers, heap, psMtx>>

\* The loop over the blocks: p.knownBlocks.Add of the next one.
sendBlocks_add(t) ==
    /\ th[t].pc = "sendBlocks_add"
    /\ IF th[t].arg.i > Len(th[t].arg.list)
       THEN /\ th' = [th EXCEPT ![t] = Returned(th[t])]
            /\ UNCHANGED heap
       ELSE /\ heap' = [heap EXCEPT ![th[t].p].knownBlocks =
                                        @ \cup {th[t].arg.list[th[t].arg.i]}]
            /\ th' = [th EXCEPT ![t].arg.i = @ + 1]
    /\ UNCHANGED <<vars, scriptVars, peers, psMtx>>

sendTransactions(t) ==
    /\ Idle(t)
    /\ \E p \in DOMAIN heap, txs \in TxShaLists :
           Begin(t, "sendTransactions", "sendTransactions_loop", "", p,
                 [list |-> txs, i |-> 1])
    /\ UNCHANGED <<vars, scriptVars, peers, heap, psMtx>>

\* A sendTransactions that sends the transactions the peer knows as well.
sendTransactions_loopResends(t) ==
    /\ th[t].pc = "sendTransactions_loop"
    /\ th' = [th EXCEPT ![t] =
                 IF th[t].arg.i > Len(th[t].arg.list)
                 THEN Returned([th[t] EXCEPT !.ok = TRUE])
                 ELSE IF /\ isSPVNode(th[t].p)
                         /\ ~isRelatedTx(th[t].p, th[t].arg.list[th[t].arg.i])
                      THEN [th[t] EXCEPT !.arg.i = @ + 1]
                      ELSE [th[t] EXCEPT !.pc = "sendTransactions_TrySend"]]
    /\ UNCHANGED <<vars, scriptVars, peers, heap, psMtx>>

\* The next transaction: skipped for an SPV peer it is not related to, and
\* when the peer knows it (knownTxs read without the peer's lock).
sendTransactions_loop(t) ==
    /\ th[t].pc = "sendTransactions_loop"
    /\ th' = [th EXCEPT ![t] =
                 IF th[t].arg.i > Len(th[t].arg.list)
                 THEN Returned([th[t] EXCEPT !.ok = TRUE])
                 ELSE IF \/ isSPVNode(th[t].p)
                            /\ ~isRelatedTx(th[t].p, th[t].arg.list[th[t].arg.i])
                         \/ th[t].arg.list[th[t].arg.i]
                                \in heap[th[t].p].knownTxs
                      THEN [th[t] EXCEPT !.arg.i = @ + 1]
                      ELSE [th[t] EXCEPT !.pc = "sendTransactions_TrySend"]]
    /\ UNCHANGED <<vars, scriptVars, peers, heap, psMtx>>

sendTransactions_TrySend(t) ==
    /\ th[t].pc = "sendTransactions_TrySend"
    /\ \E ok \in TrySend :
           th' = [th EXCEPT ![t] =
                     LET s == [Logged(th[t], <<"TrySend", th[t].p, ok>>)
                                   EXCEPT !.ok = ok]
                     IN  IF ok THEN [s EXCEPT !.pc = "sendTransactions_add"]
                         ELSE Returned(s)]
    /\ UNCHANGED <<vars, scriptVars, peers, heap, psMtx>>

sendTransactions_add(t) ==
    /\ th[t].pc = "sendTransactions_add"
    /\ heap' = [heap EXCEPT ![th[t].p].knownTxs =
                                @ \cup {th[t].arg.list[th[t].arg.i]}]
    /\ th' = [th EXCEPT ![t] = [th[t] EXCEPT !.arg.i = @ + 1,
                                             !.pc = "sendTransactions_loop"]]
    /\ UNCHANGED <<vars, scriptVars, peers, psMtx>>

\* The limits of the filter set: constants of the package defined outside
\* peer.go.
maxFilterAddressSize == 50

maxFilterAddressCount == 1000

\* Addresses: their length in bytes and their hex encoding.
FilterAddresses == {[size |-> 20, hex |-> "a"], [size |-> 51, hex |-> "b"]}

FilterAddressLists == {<<a>> : a \in FilterAddresses}

addFilterAddresses(t) ==
    /\ Idle(t)
    /\ \E p \in DOMAIN heap, addresses \in FilterAddressLists :
           Begin(t, "addFilterAddresses", "addFilterAddresses_clear", "", p,
                 [list |-> addresses, i |-> 1])
    /\ UNCHANGED <<vars, scriptVars, peers, heap, psMtx>>

\* if !p.filterAdds.IsEmpty() { p.filterAdds.Clear() }, without the lock.
addFilterAddresses_clear(t) ==
    /\ th[t].pc = "addFilterAddresses_clear"
    /\ heap' = [heap EXCEPT ![th[t].p].filterAdds = {}]
    /\ th' = [th EXCEPT ![t].pc = "addFilterAddresses_loop"]
    /\ UNCHANGED <<vars, scriptVars, peers, psMtx>>

addFilterAddresses_loop(t) ==
    /\ th[t].pc = "addFilterAddresses_loop"
    /\ th' = [th EXCEPT ![t] =
                 IF th[t].arg.i > Len(th[t].arg.list) THEN Returned(th[t])
                 ELSE Called(th[t], "addFilterAddress_Lock",
                             "addFilterAddresses_loop")]
    /\ UNCHANGED <<vars, scriptVars, peers, heap, psMtx>>

addFilterAddress_Lock(t) ==
    /\ th[t].pc = "addFilterAddress_Lock"
    /\ CanLock(heap[th[t].p].mtx)
    /\ heap' = [heap EXCEPT ![th[t].p].mtx = Lock(@, t)]
    /\ th' = [th EXCEPT ![t].pc = "addFilterAddress_add"]
    /\ UNCHANGED <<vars, scriptVars, peers, psMtx>>

\* The two limits, the Add of the hex string, and the deferred Unlock.
addFilterAddress_add(t) ==
    /\ th[t].pc = "addFilterAddress_add"
    /\ LET address == th[t].arg.list[th[t].arg.i]
           filterAdds == heap[th[t].p].filterAdds
       IN  heap' = [heap EXCEPT
                       ![th[t].p].filterAdds =
                           IF \/ Cardinality(filterAdds) >= maxFilterAddressCount
                              \/ address.size > maxFilterAddressSize
                           THEN @ ELSE @ \cup {address.hex},
                       ![th[t].p].mtx = Unlock(@, BlockedInPeerRLock(th[t].p))]
    /\ th' = [th EXCEPT ![t] = Returned([th[t] EXCEPT !.arg.i = @ + 1])]
    /\ UNCHANGED <<vars, scriptVars, peers, psMtx>>

bestPeer(t) ==
    /\ Idle(t)
    /\ \E flag \in {"SFFullNode"} :
           Begin(t, "bestPeer", "bestPeer_RLock", "", 0, [flag |-> flag])
    /\ UNCHANGED <<vars, scriptVars, peers, heap, psMtx>>

bestPeer_RLock(t) ==
    /\ th[t].pc = "bestPeer_RLock"
    /\ CanRLock(psMtx, t, BlockedInSetLock)
    /\ psMtx' = RLock(psMtx, t)
    /\ th' = [th EXCEPT ![t].pc = "bestPeer_scan"]
    /\ UNCHANGED <<vars, scriptVars, peers, heap>>

\* The registered peers that enable the flag.
Enabling(flag) ==
    {peers[id] : id \in {i \in DOMAIN peers : flag \in heap[peers[i]].services}}

\* The orders in which a range loop may meet the elements of S.
Orders(S) ==
    {o \in [1..Cardinality(S) -> S] :
        \A i, j \in DOMAIN o : i # j => o[i] # o[j]}

\* A loop that keeps the peer of the least height.
RECURSIVE lowestOf(_, _, _)
lowestOf(order, flag, best) ==
    IF order = <<>> THEN best
    ELSE LET p == Head(order)
         IN  lowestOf(Tail(order), flag,
                      IF flag \notin heap[p].services THEN best
                      ELSE IF best = 0 \/ heap[p].height < heap[best].height
                           THEN p ELSE best)

\* The loop of bestPeer over the peers in the given order, best being the
\* best peer so far, 0 for nil: a peer without the flag is passed over, and
\* a peer replaces the best one when there is none or its height is
\* greater.
RECURSIVE bestOf(_, _, _)
bestOf(order, flag, best) ==
    IF order = <<>> THEN best
    ELSE LET p == Head(order)
         IN  bestOf(Tail(order), flag,
                    IF flag \notin heap[p].services THEN best
                    ELSE IF best = 0 \/ heap[p].height > heap[best].height
                         THEN p ELSE best)

\* The loop over the map, in any order, heights read without the peers'
\* locks; the result, and the deferred RUnlock.
bestPeer_scan(t) ==
    /\ th[t].pc = "bestPeer_scan"
    /\ psMtx' = RUnlock(psMtx, t)
    /\ \E order \in Orders({peers[id] : id \in DOMAIN peers}) :
           th' = [th EXCEPT ![t] =
                     Returned([th[t] EXCEPT
                                  !.p = bestOf(order, th[t].arg.flag, 0)])]
    /\ UNCHANGED <<vars, scriptVars, peers, heap>>

\* Calls of peer.addBanScore, peersWithoutBlock and peersWithoutTx that do
\* not come from the peer set's own operations.
peerAddBanScore(t) ==
    /\ Idle(t)
    /\ \E p \in DOMAIN heap, persistent \in {60}, transient \in {0} :
           /\ ScoreRoom(t, p, persistent + transient)
           /\ Begin(t, "peer.addBanScore", "peer_addBanScore", "", p,
                    [persistent |-> persistent, transient |-> transient])
    /\ UNCHANGED <<vars, scriptVars, peers, heap, psMtx>>

peersWithoutBlock(t) ==
    /\ Idle(t)
    /\ \E hash \in BlockHashes :
           Begin(t, "peersWithoutBlock", "peersWithoutBlock_RLock", "", 0,
                 [hash |-> hash])
    /\ UNCHANGED <<vars, scriptVars, peers, heap, psMtx>>

peersWithoutTx(t) ==
    /\ Idle(t)
    /\ \E hash \in TxShas :
           Begin(t, "peersWithoutTx", "peersWithoutTx_RLock", "", 0,
                 [hash |-> hash])
    /\ UNCHANGED <<vars, scriptVars, peers, heap, psMtx>>

\* One caller: the set's registry, its ban scores and lookups.
NextBan ==
    \E t \in {1} :
        \/ addPeer(t) \/ addPeer_Lock(t) \/ addPeer_insert(t)
        \/ removePeer(t) \/ removePeer_Lock(t) \/ removePeer_delete(t)
        \/ removePeer_Stop(t)
        \/ getPeer(t) \/ getPeer_RLock(t) \/ getPeer_read(t)
        \/ addBanScore(t) \/ addBanScore_Lock(t) \/ addBanScore_lookup(t)
        \/ peer_addBanScore(t) \/ addBanScore_ban(t)
        \/ return(t)

SpecBan == Init /\ [][NextBan]_peerVars

\* One caller: registrations and the error handler.
NextErr ==
    \E t \in {1} :
        \/ addPeer(t) \/ addPeer_Lock(t) \/ addPeer_insert(t)
        \/ errorHandler(t) \/ return(t)
        \/ removePeer_Lock(t) \/ removePeer_delete(t) \/ removePeer_Stop(t)
        \/ addBanScore_Lock(t) \/ addBanScore_lookup(t)
        \/ peer_addBanScore(t) \/ addBanScore_ban(t)

SpecErr == Init /\ [][NextErr]_peerVars

\* One caller: registrations and the three broadcasts.
NextCast ==
    \E t \in {1} :
        \/ addPeer(t) \/ addPeer_Lock(t) \/ addPeer_insert(t)
        \/ broadcastMinedBlock(t) \/ broadcastMinedBlock_loop(t)
        \/ broadcastMinedBlock_TrySend(t)
        \/ broadcastNewStatus(t) \/ broadcastNewStatus_RLock(t)
        \/ broadcastNewStatus_loop(t) \/ broadcastNewStatus_TrySend(t)
        \/ broadcastTx(t) \/ broadcastTx_loop(t) \/ broadcastTx_TrySend(t)
        \/ peersWithoutBlock_RLock(t) \/ peersWithoutBlock_scan(t)
        \/ peersWithoutTx_RLock(t) \/ peersWithoutTx_scan(t)
        \/ markBlock_Lock(t) \/ markBlock_add(t)
        \/ markTransaction_Lock(t) \/ markTransaction_add(t)
        \/ removePeer_Lock(t) \/ removePeer_delete(t) \/ removePeer_Stop(t)
        \/ return(t)

SpecCast == Init /\ [][NextCast]_peerVars

\* The steps of thread t inside broadcastTx, addPeer, removePeer and
\* getPeerInfos.
StressStep(t) ==
    \/ addPeer_Lock(t) \/ addPeer_insert(t)
    \/ removePeer_Lock(t) \/ removePeer_delete(t) \/ removePeer_Stop(t)
    \/ getPeerInfos_RLock(t) \/ getPeerInfos_loop(t)
    \/ getPeerInfo_RLock(t) \/ getPeerInfo_read(t)
    \/ peersWithoutTx_RLock(t) \/ peersWithoutTx_scan(t)
    \/ broadcastTx_loop(t) \/ broadcastTx_TrySend(t)
    \/ markTransaction_Lock(t) \/ markTransaction_add(t)
    \/ return(t)

\* Threads calling broadcastTx, addPeer, removePeer and getPeerInfos on
\* one peer set.
NextStress ==
    \E t \in Threads :
        \/ addPeerAnyHeight(t) \/ removePeer(t) \/ getPeerInfos(t)
        \/ broadcastTx(t)
        \/ StressStep(t)

\* A goroutine that can run does run, and sync.RWMutex lets no goroutine
\* starve: a thread whose step is enabled again and again takes it.
SpecStress ==
    /\ Init
    /\ [][NextStress]_peerVars
    /\ \A t \in Threads : SF_peerVars(StressStep(t))

\* The steps of thread t inside the operations on a peer and the lookups
\* of the peer set.
FieldStep(t) ==
    \/ addPeer_Lock(t) \/ addPeer_insert(t)
    \/ setStatus_Lock(t) \/ setStatus_write(t)
    \/ markBlock_Lock(t) \/ markBlock_add(t)
    \/ markTransaction_Lock(t) \/ markTransaction_add(t)
    \/ sendBlock_TrySend(t) \/ sendBlock_add(t)
    \/ sendBlocks_TrySend(t) \/ sendBlocks_add(t)
    \/ sendTransactions_loop(t) \/ sendTransactions_TrySend(t)
    \/ sendTransactions_add(t)
    \/ peer_addBanScore(t)
    \/ addFilterAddresses_clear(t) \/ addFilterAddresses_loop(t)
    \/ addFilterAddress_Lock(t) \/ addFilterAddress_add(t)
    \/ bestPeer_RLock(t) \/ bestPeer_scan(t)
    \/ peersWithoutBlock_RLock(t) \/ peersWithoutBlock_scan(t)
    \/ peersWithoutTx_RLock(t) \/ peersWithoutTx_scan(t)
    \/ return(t)

\* Threads working on the fields of registered peers.
NextFields ==
    \E t \in Threads :
        \/ addOnlyPeer(t) \/ setStatus(t) \/ markBlock(t)
        \/ markTransaction(t)
        \/ sendBlock(t) \/ sendBlocks(t) \/ sendTransactions(t)
        \/ peerAddBanScore(t) \/ addFilterAddresses(t) \/ bestPeer(t)
        \/ peersWithoutBlock(t) \/ peersWithoutTx(t)
        \/ FieldStep(t)

SpecFields == Init /\ [][NextFields]_peerVars

\* The steps of thread t inside the operations that take the set's lock
\* or a peer's lock.
LockStep(t) ==
    \/ addPeer_Lock(t) \/ addPeer_insert(t)
    \/ removePeer_Lock(t) \/ removePeer_delete(t) \/ removePeer_Stop(t)
    \/ getPeer_RLock(t) \/ getPeer_read(t)
    \/ bestPeer_RLock(t) \/ bestPeer_scan(t)
    \/ getPeerInfos_RLock(t) \/ getPeerInfos_loop(t)
    \/ getPeerInfo_RLock(t) \/ getPeerInfo_read(t)
    \/ peersWithoutBlock_RLock(t) \/ peersWithoutBlock_scan(t)
    \/ peersWithoutTx_RLock(t) \/ peersWithoutTx_scan(t)
    \/ broadcastMinedBlock_loop(t) \/ broadcastMinedBlock_TrySend(t)
    \/ broadcastNewStatus_RLock(t) \/ broadcastNewStatus_loop(t)
    \/ broadcastNewStatus_TrySend(t)
    \/ broadcastTx_loop(t) \/ broadcastTx_TrySend(t)
    \/ markBlock_Lock(t) \/ markBlock_add(t)
    \/ markTransaction_Lock(t) \/ markTransaction_add(t)
    \/ setStatus_Lock(t) \/ setStatus_write(t)
    \/ addFilterAddresses_clear(t) \/ addFilterAddresses_loop(t)
    \/ addFilterAddress_Lock(t) \/ addFilterAddress_add(t)
    \/ return(t)

\* Threads in the operations that take locks, on a set of one peer.
NextLocks ==
    \E t \in Threads :
        \/ addOnlyPeer(t) \/ removePeer(t) \/ getPeer(t) \/ bestPeer(t)
        \/ getPeerInfos(t)
        \/ broadcastMinedBlock(t) \/ broadcastNewStatus(t) \/ broadcastTx(t)
        \/ markBlock(t) \/ markTransaction(t) \/ setStatus(t)
        \/ addFilterAddresses(t)
        \/ LockStep(t)

SpecLocks == Init /\ [][NextLocks]_peerVars

\* Block hashes numbered in the order a peer comes to know them: the first
\* one the peer does not know yet, as long as there is one.
MaxKnownHashes == maxKnownBlocks + 1

NextHash(p) == Cardinality(heap[p].knownBlocks) + 1

Fresh(p, hash) == hash <= MaxKnownHashes /\ hash \notin heap[p].knownBlocks

markNextBlock(t) ==
    /\ Idle(t)
    /\ \E p \in DOMAIN heap :
           /\ Fresh(p, NextHash(p))
           /\ Begin(t, "markBlock", "markBlock_Lock", "", p,
                    [hash |-> NextHash(p)])
    /\ UNCHANGED <<vars, scriptVars, peers, heap, psMtx>>

sendNextBlock(t) ==
    /\ Idle(t)
    /\ \E p \in DOMAIN heap :
           /\ Fresh(p, NextHash(p))
           /\ Begin(t, "sendBlock", "sendBlock_TrySend", "", p,
                    [hash |-> NextHash(p)])
    /\ UNCHANGED <<vars, scriptVars, peers, heap, psMtx>>

sendNextBlocks(t) ==
    /\ Idle(t)
    /\ \E p \in DOMAIN heap :
           /\ Fresh(p, NextHash(p))
           /\ Begin(t, "sendBlocks", "sendBlocks_TrySend", "", p,
                    [list |-> <<NextHash(p)>>, i |-> 1])
    /\ UNCHANGED <<vars, scriptVars, peers, heap, psMtx>>

\* One caller filling the known blocks of one peer, hash after hash.
NextKnown ==
    \E t \in {1} :
        \/ addOnlyPeer(t) \/ addPeer_Lock(t) \/ addPeer_insert(t)
        \/ markNextBlock(t) \/ markBlock_Lock(t) \/ markBlock_add(t)
        \/ sendNextBlock(t) \/ sendBlock_TrySend(t) \/ sendBlock_add(t)
        \/ sendNextBlocks(t) \/ sendBlocks_TrySend(t) \/ sendBlocks_add(t)
        \/ return(t)

SpecKnown == Init /\ [][NextKnown]_peerVars

\* The steps of thread t inside the operations that remove a peer.
RemoveStep(t) ==
    \/ addPeer_Lock(t) \/ addPeer_insert(t)
    \/ removePeer_Lock(t) \/ removePeer_delete(t) \/ removePeer_Stop(t)
    \/ addBanScore_Lock(t) \/ addBanScore_lookup(t)
    \/ peer_addBanScore(t) \/ addBanScore_ban(t)
    \/ peersWithoutBlock_RLock(t) \/ peersWithoutBlock_scan(t)
    \/ peersWithoutTx_RLock(t) \/ peersWithoutTx_scan(t)
    \/ broadcastNewStatus_RLock(t) \/ broadcastNewStatus_loop(t)
    \/ broadcastNewStatus_TrySend(t)
    \/ broadcastTx_loop(t) \/ broadcastTx_TrySend(t)
    \/ markTransaction_Lock(t) \/ markTransaction_add(t)
    \/ return(t)

\* Threads in the operations that remove a peer, on a set of one peer.
NextRemove ==
    \E t \in Threads :
        \/ addOnlyPeer(t) \/ removePeer(t) \/ errorHandler(t)
        \/ broadcastNewStatus(t) \/ broadcastTx(t)
        \/ RemoveStep(t)

\* A goroutine that can run does run.
SpecRemove ==
    /\ Init
    /\ [][NextRemove]_peerVars
    /\ \A t \in Threads : SF_peerVars(RemoveStep(t))

\* One caller: registrations, and changes of every field of a peer.
NextAdd ==
    \E t \in {1} :
        \/ addPeer(t) \/ addPeer_Lock(t) \/ addPeer_insert(t)
        \/ setStatus(t) \/ setStatus_Lock(t) \/ setStatus_write(t)
        \/ markBlock(t) \/ markBlock_Lock(t) \/ markBlock_add(t)
        \/ markTransaction(t) \/ markTransaction_Lock(t)
        \/ markTransaction_add(t)
        \/ addFilterAddresses(t) \/ addFilterAddresses_clear(t)
        \/ addFilterAddresses_loop(t)
        \/ addFilterAddress_Lock(t) \/ addFilterAddress_add(t)
        \/ peerAddBanScore(t) \/ peer_addBanScore(t)
        \/ return(t)

SpecAdd == Init /\ [][NextAdd]_peerVars

\* One caller: registrations, removals, changes of height and bestPeer.
NextBest ==
    \E t \in {1} :
        \/ addPeer(t) \/ addPeer_Lock(t) \/ addPeer_insert(t)
        \/ removePeer(t) \/ removePeer_Lock(t) \/ removePeer_delete(t)
        \/ removePeer_Stop(t)
        \/ setStatus(t) \/ setStatus_Lock(t) \/ setStatus_write(t)
        \/ bestPeer(t) \/ bestPeer_RLock(t) \/ bestPeer_scan(t)
        \/ return(t)

SpecBest == Init /\ [][NextBest]_peerVars

(***************************************************************************)
(* C12.  A peer is banned exactly when its score exceeds 100: with         *)
(* persistent additions only, peer.addBanScore returns true if and only if *)
(* the sum of the persistent additions made to the peer so far, the        *)
(* current one included, is greater than 100; at exactly 100, and anywhere *)
(* in 51..100, it returns false.                                           *)
(***************************************************************************)
\* Thread t has just come back from peer.addBanScore, into
\* peerSet.addBanScore, and the peer has had persistent additions only.
BackFromPeerAddBanScore(t) ==
    /\ th[t].pc = "addBanScore_ban"
    /\ th[t].arg.transient = 0
    /\ heap[th[t].p].banScore.transient = 0

C12_BanIffOver100 ==
    \A t \in Threads :
        BackFromPeerAddBanScore(t) =>
            /\ th[t].ok <=> heap[th[t].p].banScore.persistent > 100
            /\ heap[th[t].p].banScore.persistent \in 51..100 => ~th[t].ok

\* A score of exactly 100 has not banned.
C12_Witness ==
    \E t \in Threads :
        /\ BackFromPeerAddBanScore(t)
        /\ heap[th[t].p].banScore.persistent = 100
        /\ ~th[t].ok

(***************************************************************************)
(* C13.  peerSet.addBanScore on a registered peer whose score thereby      *)
(* exceeds the threshold calls AddBannedPeer with the peer's address, then *)
(* deletes the peer from the map, then calls StopPeerGracefully, in that   *)
(* order, and the id is no longer registered when it returns; when the     *)
(* threshold is not exceeded, or the id is not registered, the peer map    *)
(* stays as it is and the transport is not called.                         *)
(***************************************************************************)
BanLog(id) ==
    << <<"AddBannedPeer", Addr(id)>>,
       <<"delete", id, TRUE>>,
       <<"StopPeerGracefully", id>> >>

\* Thread t is at the end of a call of op.
AtReturnOf(t, op) == th[t].pc = "return" /\ th[t].op = op

C13_BanOrder ==
    /\ [](\A t \in Threads :
             AtReturnOf(t, "addBanScore") =>
                 IF th[t].ok
                 THEN /\ th[t].log = BanLog(th[t].id)
                      /\ th[t].id \notin DOMAIN peers
                 ELSE th[t].log = <<>>)
    /\ [][\A t \in Threads :
             (th[t].op = "addBanScore" /\ peers' # peers) =>
                 /\ th[t].ok
                 /\ th[t].log = <<<<"AddBannedPeer", Addr(th[t].id)>>>>
                 /\ peers' = mapDelete(peers, th[t].id)]_peerVars

\* A call of peerSet.addBanScore has banned its peer.
C13_Witness ==
    \E t \in Threads :
        /\ AtReturnOf(t, "addBanScore")
        /\ th[t].ok
        /\ Len(th[t].log) = 3
        /\ Score(heap[th[t].p].banScore) > defaultBanThreshold

(***************************************************************************)
(* C14.  errorHandler removes the peer at once, without AddBannedPeer,     *)
(* when the root of the error is not errPeerMisbehave; when it is, it adds *)
(* a persistent score of 20 and the peer stays registered unless the score *)
(* then exceeds 100: through the first five such errors the peer stays,    *)
(* and the sixth bans and removes it.  (Under SpecErr the error handler is *)
(* the only source of score, so a peer's persistent score is 20 times the  *)
(* number of its misbehave errors.)                                        *)
(***************************************************************************)
C14_ErrorHandler ==
    /\ [](\A t \in Threads :
             AtReturnOf(t, "errorHandler") =>
                 IF th[t].arg.err # "errPeerMisbehave"
                 THEN /\ th[t].log = << <<"delete", th[t].id, TRUE>>,
                                        <<"StopPeerGracefully", th[t].id>> >>
                         \/ th[t].log = << <<"delete", th[t].id, FALSE>>,
                                           <<"StopPeerGracefully", th[t].id>> >>
                      /\ th[t].id \notin DOMAIN peers
                 ELSE IF th[t].p = 0 THEN th[t].log = <<>>
                 ELSE LET n == heap[th[t].p].banScore.persistent \div 20
                      IN  /\ heap[th[t].p].banScore.persistent = 20 * n
                          /\ n \in 1..6
                          /\ n <= 5 => /\ th[t].log = <<>>
                                       /\ th[t].id \in DOMAIN peers
                                       /\ peers[th[t].id] = th[t].p
                          /\ n = 6 => /\ th[t].log = BanLog(th[t].id)
                                      /\ th[t].id \notin DOMAIN peers)
    /\ [][\A t \in Threads :
             (th[t].op = "errorHandler" /\ heap' # heap) =>
                 /\ th[t].pc = "peer_addBanScore"
                 /\ heap' = [heap EXCEPT ![th[t].p].banScore.persistent = @ + 20]
          ]_peerVars

\* The sixth misbehave error of a peer has banned it.
C14_Witness ==
    \E t \in Threads :
        /\ AtReturnOf(t, "errorHandler")
        /\ th[t].p # 0
        /\ heap[th[t].p].banScore.persistent = 120
        /\ th[t].log = BanLog(th[t].id)
(***************************************************************************)
(* C15.  When broadcastMinedBlock, broadcastNewStatus or broadcastTx       *)
(* returns, every peer whose TrySend succeeded has the broadcast hash in   *)
(* its known set: known blocks for a block or a status, known txs for a    *)
(* transaction.                                                            *)
(***************************************************************************)
Broadcasts == {"broadcastMinedBlock", "broadcastNewStatus", "broadcastTx"}

\* The peers the call of thread t sent to, with the given outcome.
SentTo(t, ok) ==
    {th[t].log[i][2] : i \in {j \in DOMAIN th[t].log :
                                  /\ th[t].log[j][1] = "TrySend"
                                  /\ th[t].log[j][3] = ok}}

KnownOf(p, op) ==
    IF op = "broadcastTx" THEN heap[p].knownTxs ELSE heap[p].knownBlocks

C15_BroadcastMarksKnown ==
    \A t \in Threads :
        \A op \in Broadcasts :
            AtReturnOf(t, op) =>
                \A p \in SentTo(t, TRUE) : th[t].arg.hash \in KnownOf(p, op)
(***************************************************************************)
(* C16.  A send failure in a broadcast is handled peer by peer.  With one  *)
(* caller: a broadcast whose TrySend failed is never kept from removing    *)
(* the peer by a set lock of its own; and when it returns, the peers whose *)
(* TrySend failed, and no others, were deleted from the map and passed to  *)
(* StopPeerGracefully, while every peer still registered was sent to       *)
(* unless it was skipped as an SPV node or knew the hash already.          *)
(***************************************************************************)
\* The ids the call of thread t logged under the given kind of entry.
LoggedIds(t, kind) ==
    {th[t].log[i][2] : i \in {j \in DOMAIN th[t].log : th[t].log[j][1] = kind}}

FailedIds(t) == {heap[p].ID : p \in SentTo(t, FALSE)}

\* The broadcast of thread t can go on with removePeer.
RemovalCanProceed(t) ==
    (th[t].op \in Broadcasts /\ th[t].pc = "removePeer_Lock")
        => psMtx.r[t] = 0

C16_SendFailurePerPeer ==
    \A t \in Threads :
        /\ RemovalCanProceed(t)
        /\ \A op \in Broadcasts :
               AtReturnOf(t, op) =>
                   /\ LoggedIds(t, "delete") = FailedIds(t)
                   /\ LoggedIds(t, "StopPeerGracefully") = FailedIds(t)
                   /\ FailedIds(t) \cap DOMAIN peers = {}
                   /\ \A id \in DOMAIN peers :
                          \/ peers[id] \in SentTo(t, TRUE)
                          \/ op # "broadcastNewStatus" /\ isSPVNode(peers[id])
                          \/ th[t].arg.hash \in KnownOf(peers[id], op)
(***************************************************************************)
(* C17.  No deadlock: with threads calling broadcastTx, addPeer,           *)
(* removePeer and getPeerInfos on one peer set, under fair scheduling      *)
(* every call that has begun returns, whatever the interleaving and the    *)
(* outcomes of TrySend.                                                    *)
(***************************************************************************)
C17_EveryCallReturns ==
    \A t \in Threads : (~Idle(t)) ~> Idle(t)

\* Two calls in progress, one waiting for the set lock the other holds.
C17_Witness ==
    \E t, u \in Threads :
        /\ th[t].op = "broadcastTx" /\ th[t].pc = "removePeer_Lock"
        /\ th[u].op = "getPeerInfos" /\ psMtx.r[u] > 0
(***************************************************************************)
(* C18.  A broadcast takes its snapshot of target peers under the shared   *)
(* set lock and holds the set lock neither when it calls TrySend nor when  *)
(* it calls removePeer.                                                    *)
(***************************************************************************)
HoldsSetLock(t) == psMtx.r[t] > 0 \/ psMtx.w = t

TrySendPcs == {"broadcastMinedBlock_TrySend", "broadcastNewStatus_TrySend",
               "broadcastTx_TrySend"}

C18_SnapshotThenRelease ==
    \A t \in Threads :
        th[t].op \in Broadcasts =>
            /\ th[t].pc \in {"peersWithoutBlock_scan", "peersWithoutTx_scan"}
                   => psMtx.r[t] > 0
            /\ th[t].pc \in TrySendPcs \cup {"removePeer_Lock"}
                   => ~HoldsSetLock(t)
(***************************************************************************)
(* C20.  The fields of a peer are read and written under the peer's lock:  *)
(* no two threads are ever about to access the same field of the same      *)
(* peer, one of them writing, unless each holds the peer's lock in the     *)
(* mode its access needs (which a reader-writer lock never grants to       *)
(* both).                                                                  *)
(***************************************************************************)
Access(p, field, write) == [p |-> p, field |-> field, write |-> write]

\* The accesses to fields of peers that the next step of thread t makes.
Accesses(t) ==
    LET s == th[t]
        more == s.arg.i <= Len(s.arg.list)
    IN  CASE s.pc = "setStatus_write" ->
                 {Access(s.p, "height", TRUE), Access(s.p, "hash", TRUE)}
          [] s.pc = "getPeerInfo_read" -> {Access(s.p, "height", FALSE)}
          [] s.pc \in {"markBlock_add", "sendBlock_add"} ->
                 {Access(s.p, "knownBlocks", TRUE)}
          [] s.pc = "sendBlocks_add" ->
                 IF more THEN {Access(s.p, "knownBlocks", TRUE)} ELSE {}
          [] s.pc \in {"markTransaction_add", "sendTransactions_add"} ->
                 {Access(s.p, "knownTxs", TRUE)}
          [] s.pc = "sendTransactions_loop" ->
                 IF more /\ ~(isSPVNode(s.p)
                              /\ ~isRelatedTx(s.p, s.arg.list[s.arg.i]))
                 THEN {Access(s.p, "knownTxs", FALSE)} ELSE {}
          [] s.pc = "peer_addBanScore" -> {Access(s.p, "banScore", TRUE)}
          [] s.pc = "addFilterAddresses_clear" ->
                 {Access(s.p, "filterAdds", heap[s.p].filterAdds # {})}
          [] s.pc = "addFilterAddress_add" -> {Access(s.p, "filterAdds", TRUE)}
          [] s.pc = "bestPeer_scan" ->
                 {Access(q, "height", FALSE) : q \in Enabling(s.arg.flag)}
          [] s.pc = "peersWithoutBlock_scan" ->
                 {Access(peers[id], "knownBlocks", FALSE) : id \in DOMAIN peers}
          [] s.pc = "peersWithoutTx_scan" ->
                 {Access(peers[id], "knownTxs", FALSE) : id \in DOMAIN peers}
          [] OTHER -> {}

\* Thread t holds the lock of the peer in the mode access a needs.
Guarded(t, a) ==
    \/ heap[a.p].mtx.w = t
    \/ ~a.write /\ heap[a.p].mtx.r[t] > 0

Conflicting(a, b) ==
    a.p = b.p /\ a.field = b.field /\ (a.write \/ b.write)

C20_FieldsGuarded ==
    \A t, u \in Threads :
        t # u =>
            \A a \in Accesses(t), b \in Accesses(u) :
                Conflicting(a, b) => Guarded(t, a) /\ Guarded(u, b)
(***************************************************************************)
(* C19.  Lock order: a thread that is about to request the set's lock,     *)
(* shared or exclusive, holds no peer's lock, and no thread acquires the   *)
(* set's lock while it holds a peer's lock; so a thread that holds both    *)
(* took the set's lock first.                                              *)
(***************************************************************************)
HoldsPeerLock(t) ==
    \E p \in DOMAIN heap : heap[p].mtx.w = t \/ heap[p].mtx.r[t] > 0

\* The steps that call ps.mtx.Lock() or ps.mtx.RLock().
SetRequestPcs == SetLockPcs \cup SetRLockPcs

C19_LockOrder ==
    /\ [](\A t \in Threads : th[t].pc \in SetRequestPcs => ~HoldsPeerLock(t))
    /\ [][\A t \in Threads :
              (psMtx'.w = t /\ psMtx.w # t) \/ psMtx'.r[t] > psMtx.r[t]
                  => ~HoldsPeerLock(t)]_peerVars

\* A thread holds the set's lock and a peer's lock, while another waits
\* for a peer's lock.
C19_Witness ==
    \E t, u \in Threads :
        /\ HoldsSetLock(t) /\ HoldsPeerLock(t)
        /\ th[u].pc \in PeerLockPcs
(***************************************************************************)
(* C21.  The known sets are bounded: whatever was marked and sent, a peer  *)
(* knows at most maxKnownBlocks block hashes and at most maxKnownTxs       *)
(* transaction hashes, and when markBlock or markTransaction returns, the  *)
(* hash it marked is in the set.                                           *)
(***************************************************************************)
C21_KnownSetsBounded ==
    /\ \A p \in DOMAIN heap :
           /\ Cardinality(heap[p].knownBlocks) <= maxKnownBlocks
           /\ Cardinality(heap[p].knownTxs) <= maxKnownTxs
    /\ \A t \in Threads :
           /\ AtReturnOf(t, "markBlock")
                  => th[t].arg.hash \in heap[th[t].p].knownBlocks
           /\ AtReturnOf(t, "markTransaction")
                  => th[t].arg.hash \in heap[th[t].p].knownTxs
(***************************************************************************)
(* C22.  Every removal of a peer from the set is followed by               *)
(* StopPeerGracefully for its id, called after the set's lock is           *)
(* released: an id leaves the map only in the deletion step of a           *)
(* removePeer, whose thread is then about to stop that id; a thread about  *)
(* to stop a peer does not hold the set's lock; its next step is the call  *)
(* of StopPeerGracefully with the id, and it takes that step.              *)
(***************************************************************************)
Stopped(t) ==
    /\ th[t].log # <<>>
    /\ th[t].log[Len(th[t].log)] = <<"StopPeerGracefully", th[t].id>>

C22_RemovalThenStop ==
    /\ [][\A id \in DOMAIN peers \ DOMAIN peers' :
              \E t \in Threads :
                  /\ th[t].pc = "removePeer_delete"
                  /\ th'[t].pc = "removePeer_Stop" /\ th'[t].id = id]_peerVars
    /\ [](\A t \in Threads : th[t].pc = "removePeer_Stop" => ~HoldsSetLock(t))
    /\ [][\A t \in Threads :
              th[t].pc = "removePeer_Stop" /\ th'[t] # th[t]
                  => th'[t].log = Append(th[t].log,
                                         <<"StopPeerGracefully", th[t].id>>)]_peerVars
    /\ \A t \in Threads : (th[t].pc = "removePeer_Stop") ~> Stopped(t)

\* A failed broadcast send, or the error handler, has removed a peer and
\* stopped it.
C22_Witness ==
    \E t \in Threads :
        /\ th[t].op \in {"broadcastTx", "errorHandler"}
        /\ AtReturnOf(t, th[t].op)
        /\ \E i \in DOMAIN th[t].log : th[t].log[i] = <<"delete", th[t].id, TRUE>>
        /\ Stopped(t)
(***************************************************************************)
(* C23.  addPeer of an id that is not registered registers a new peer      *)
(* with the given height and hash, no score, empty known sets and no       *)
(* filter address, and leaves the other peers alone; addPeer of a          *)
(* registered id changes neither the map nor any peer.                     *)
(***************************************************************************)
\* Thread t takes the step of addPeer that follows ps.mtx.Lock().
Inserting(t) == th[t].pc = "addPeer_insert" /\ th'[t].pc # "addPeer_insert"

C23_AddPeerFrame ==
    [][\A t \in Threads :
           Inserting(t) =>
               IF th[t].id \in DOMAIN peers
               THEN peers' = peers /\ heap' = heap
               ELSE /\ DOMAIN peers' = DOMAIN peers \cup {th[t].id}
                    /\ \A id \in DOMAIN peers : peers'[id] = peers[id]
                    /\ peers'[th[t].id] = Len(heap) + 1
                    /\ Len(heap') = Len(heap) + 1
                    /\ \A p \in DOMAIN heap : heap'[p] = heap[p]
                    /\ LET new == heap'[Len(heap')]
                       IN  /\ new.ID = th[t].id
                           /\ new.height = th[t].arg.height
                           /\ new.hash = th[t].arg.hash
                           /\ new.services = th[t].arg.services
                           /\ Score(new.banScore) = 0
                           /\ new.knownTxs = {} /\ new.knownBlocks = {}
                           /\ new.filterAdds = {}]_peerVars

\* addPeer has returned for a registered id whose peer has a height other
\* than the given one, a score, known hashes and a filter address.
C23_Witness ==
    \E t \in Threads :
        /\ AtReturnOf(t, "addPeer")
        /\ th[t].id \in DOMAIN peers
        /\ LET old == heap[peers[th[t].id]]
           IN  /\ old.height # th[t].arg.height
               /\ Score(old.banScore) > 0
               /\ old.knownTxs # {} /\ old.knownBlocks # {}
               /\ old.filterAdds # {}
(***************************************************************************)
(* C24.  bestPeer(flag) returns a registered peer whose services include   *)
(* the flag and whose height is at least that of every registered peer     *)
(* with the flag; it returns nil exactly when no registered peer has the   *)
(* flag; a peer that was removed is never returned.                        *)
(***************************************************************************)
C24_BestPeer ==
    \A t \in Threads :
        AtReturnOf(t, "bestPeer") =>
            LET among == Enabling(th[t].arg.flag)
                best == th[t].p
            IN  IF among = {} THEN best = 0
                ELSE /\ best \in among
                     /\ peers[heap[best].ID] = best
                     /\ \A o \in among : heap[o].height <= heap[best].height

\* bestPeer has returned the higher of two registered full nodes.
C24_Witness ==
    \E t \in Threads :
        /\ AtReturnOf(t, "bestPeer")
        /\ th[t].p # 0
        /\ \E o \in Enabling(th[t].arg.flag) :
               heap[o].height < heap[th[t].p].height
(***************************************************************************)
(* C25.  On an open store, whatever was inserted and dropped, NewestSha    *)
(* returns no error and leaves the store as it is; it returns the zero     *)
(* hash and -1 when there is no block, and otherwise the hash of the last  *)
(* block of the vector and the number of blocks minus one.                 *)
(***************************************************************************)
C25_NewestSha ==
    ~closed =>
        LET r == NewestShaResult(StoreNow)
        IN  /\ r.err = "nil"
            /\ r.db = StoreNow
            /\ IF Len(blocks) = 0
               THEN r.val.sha = zeroHash /\ r.val.height = -1
               ELSE /\ r.val.sha = BlockHash(blocks[Len(blocks)])
                    /\ r.val.height = Len(blocks) - 1

\* NewestSha was called on a store that holds a block and from which a
\* block was dropped.
C25_Witness ==
    /\ last.op = "NewestSha" /\ last.err = "nil"
    /\ Len(blocks) >= 1
    /\ Cardinality(DOMAIN blocksBySha) > Len(blocks)
MaxKeys == 2        \* the longest list of public keys given to MultiSigScript

OP_0 == 0
OP_PUSHDATA1 == 76
OP_PUSHDATA4 == 78
OP_1 == 81
OP_16 == 96
OP_RETURN == 106
OP_DROP == 117
OP_EQUAL == 135
OP_HASH160 == 169
OP_CHECKMULTISIG == 174
OP_CHECKSEQUENCEVERIFY == 178
MaxDataCarrierSize == 80

\* type ScriptClass, in the order of the enumeration.
NonStandardTy == 0
MultiSigTy == 1
NullDataTy == 2
WitnessV0ScriptHashTy == 3
LocktimeScriptHashTy == 4

\* The labels of the classes, one per class.
scriptClassToName ==
    <<"nonstandard", "multisig", "nulldata", "witness_v0_scripthash",
      "locktime_scripthash">>

\* The classes String is called on: every class and the two values past.
ClassInputs == 0..(Len(scriptClassToName) + 1)

\* A serialized public key: a format byte and the bytes of the coordinates.
Key(format, fill, length) == <<format>> \o [n \in 1..(length - 1) |-> fill]

\* Public keys that decode: a compressed one and an uncompressed one.
KeyInputs == {Key(2, 1, 33), Key(4, 2, 65)}

\* The pushes of a received script: the keys, data as long as a key that is
\* no key, and data of another length.
PushInputs == KeyInputs \cup {Key(5, 3, 33), Key(2, 4, 20)}

\* The 32-byte script hashes.
HashInputs == {[n \in 1..32 |-> 17], [n \in 1..32 |-> 0]}

NRequiredInputs == 0..(MaxKeys + 1)

RECURSIVE ListsUpTo(_, _)
\* The lists of at most n elements of S.
ListsUpTo(S, n) ==
    IF n = 0 THEN {<<>>}
    ELSE LET shorter == ListsUpTo(S, n - 1)
         IN  shorter \cup {Append(l, x) : l \in shorter, x \in S}

(***************************************************************************)
(* ScriptBuilder.                                                          *)
(***************************************************************************)
NewScriptBuilder == <<>>

AddOp(script, opcode) == Append(script, opcode)

\* AddData pushes data in its canonical form; data is shorter than 256 bytes.
AddData(script, data) ==
    IF Len(data) = 0 \/ (Len(data) = 1 /\ data[1] = 0) THEN Append(script, OP_0)
    ELSE IF Len(data) = 1 /\ data[1] <= 16
         THEN Append(script, (OP_1 - 1) + data[1])
    ELSE IF Len(data) = 1 /\ data[1] = 129
         THEN Append(script, OP_1 - 2)                       \* OP_1NEGATE
    ELSE IF Len(data) < OP_PUSHDATA1 THEN (script \o <<Len(data)>>) \o data
    ELSE (script \o <<OP_PUSHDATA1, Len(data)>>) \o data

\* AddInt64 pushes a number from 0 to 127.
AddInt64(script, val) ==
    IF val = 0 THEN Append(script, OP_0)
    ELSE IF val >= 1 /\ val <= 16 THEN Append(script, (OP_1 - 1) + val)
    ELSE AddData(script, <<val>>)

(***************************************************************************)
(* parseScript: the parsed opcodes of a script, or an error when a push    *)
(* runs past the end of the script.  The data of an opcode that pushes     *)
(* nothing is nil (hasData = FALSE).                                       *)
(***************************************************************************)
parsedOpcode(opcode, data, hasData) ==
    [opcode |-> opcode, data |-> data, hasData |-> hasData]

RECURSIVE littleEndian(_)
littleEndian(bytes) ==
    IF bytes = <<>> THEN 0 ELSE bytes[1] + 256 * littleEndian(Tail(bytes))

RECURSIVE parseFrom(_, _, _)
parseFrom(script, i, pops) ==
    IF i > Len(script) THEN [err |-> "nil", pops |-> pops]
    ELSE LET op == script[i]
         IN  IF op = OP_0 \/ op > OP_PUSHDATA4
             THEN parseFrom(script, i + 1,
                            Append(pops, parsedOpcode(op, <<>>, FALSE)))
             ELSE IF op < OP_PUSHDATA1
             THEN IF i + op > Len(script)
                  THEN [err |-> "ErrStackShortScript", pops |-> pops]
                  ELSE parseFrom(script, i + op + 1,
                                 Append(pops,
                                        parsedOpcode(op,
                                                     SubSeq(script, i + 1, i + op),
                                                     TRUE)))
             ELSE LET width == IF op = OP_PUSHDATA1 THEN 1
                               ELSE IF op = OP_PUSHDATA4 THEN 4 ELSE 2
                  IN  IF i + width > Len(script)
                      THEN [err |-> "ErrStackShortScript", pops |-> pops]
                      ELSE LET l == littleEndian(SubSeq(script, i + 1, i + width))
                           IN  IF i + width + l > Len(script)
                               THEN [err |-> "ErrStackShortScript", pops |-> pops]
                               ELSE parseFrom(script, i + width + l + 1,
                                              Append(pops,
                                                     parsedOpcode(op,
                                                         SubSeq(script, i + width + 1,
                                                                i + width + l),
                                                         TRUE)))

parseScript(script) == parseFrom(script, 1, <<>>)

isSmallInt(op) == op = OP_0 \/ (op >= OP_1 /\ op <= OP_16)

\* asSmallInt subtracts in bytes.
asSmallInt(op) == IF op = OP_0 THEN 0 ELSE (op - (OP_1 - 1)) % 256

(***************************************************************************)
(* The classifier.                                                         *)
(***************************************************************************)
isMultiSig(pops) ==
    LET l == Len(pops)
    IN  /\ ~(l < 4)
        /\ isSmallInt(pops[1].opcode)
        /\ isSmallInt(pops[l - 1].opcode)
        /\ pops[l].opcode = OP_CHECKMULTISIG
        /\ l - 2 - 1 = asSmallInt(pops[l - 1].opcode)
        /\ \A n \in 2..(l - 2) : Len(pops[n].data) \in {33, 65}

isNullData(pops) ==
    LET l == Len(pops)
    IN  \/ l = 1 /\ pops[1].opcode = OP_RETURN
        \/ /\ l = 2
           /\ pops[1].opcode = OP_RETURN
           /\ pops[2].opcode <= OP_PUSHDATA4
           /\ Len(pops[2].data) <= MaxDataCarrierSize

\* OP_0 and a push of 32 bytes.
isWitnessScriptHash(pops) ==
    /\ Len(pops) = 2
    /\ pops[1].opcode = OP_0
    /\ pops[2].opcode = 32

\* A push of 8 bytes, OP_CHECKSEQUENCEVERIFY, OP_DROP, OP_HASH160, a push of
\* 20 bytes, OP_EQUAL.
isLocktimeScriptHash(pops) ==
    /\ Len(pops) = 6
    /\ pops[1].opcode = 8
    /\ pops[2].opcode = OP_CHECKSEQUENCEVERIFY
    /\ pops[3].opcode = OP_DROP
    /\ pops[4].opcode = OP_HASH160
    /\ pops[5].opcode = 20
    /\ pops[6].opcode = OP_EQUAL

typeOfScript(pops) ==
    IF isMultiSig(pops) THEN MultiSigTy
    ELSE IF isNullData(pops) THEN NullDataTy
    ELSE IF isWitnessScriptHash(pops) THEN WitnessV0ScriptHashTy
    ELSE IF isLocktimeScriptHash(pops) THEN LocktimeScriptHashTy
    ELSE NonStandardTy

GetScriptClassResult(script) ==
    LET parsed == parseScript(script)
    IN  IF parsed.err # "nil" THEN NonStandardTy ELSE typeOfScript(parsed.pops)

\* String indexes the labels from 0; an index past the labels panics.
StringResult(t) ==
    IF t > Len(scriptClassToName) \/ t < 0 THEN [err |-> "nil", val |-> "Invalid"]
    ELSE IF t + 1 \in DOMAIN scriptClassToName
         THEN [err |-> "nil", val |-> scriptClassToName[t + 1]]
    ELSE [err |-> "panic", val |-> ""]

CalcMultiSigStatsResult(script) ==
    LET parsed == parseScript(script)
        pops == parsed.pops
    IN  IF parsed.err # "nil"
        THEN [err |-> parsed.err, numPubKeys |-> 0, numSigs |-> 0]
        ELSE IF Len(pops) < 4
        THEN [err |-> "ErrStackUnderflow", numPubKeys |-> 0, numSigs |-> 0]
        ELSE [err |-> "nil",
              numPubKeys |-> asSmallInt(pops[Len(pops) - 1].opcode),
              numSigs |-> asSmallInt(pops[1].opcode)]

(***************************************************************************)
(* The builders of standard scripts.                                       *)
(***************************************************************************)
payToWitnessScriptHashScript(scriptHash) ==
    [err |-> "nil", script |-> AddData(AddOp(NewScriptBuilder, OP_0), scriptHash)]

RECURSIVE AddKeys(_, _)
\* The loop of MultiSigScript over the keys.
AddKeys(builder, pubkeys) ==
    IF pubkeys = <<>> THEN builder
    ELSE AddKeys(AddData(builder, Head(pubkeys)), Tail(pubkeys))

\* pubkeys are the serialized keys, what ScriptAddress returns of each.
MultiSigScriptResult(pubkeys, nrequired) ==
    IF Len(pubkeys) < nrequired THEN [err |-> "ErrBadNumRequired", script |-> <<>>]
    ELSE [err |-> "nil",
          script |-> AddOp(AddInt64(AddKeys(AddInt64(NewScriptBuilder, nrequired),
                                            pubkeys),
                                    Len(pubkeys)),
                           OP_CHECKMULTISIG)]

(***************************************************************************)
(* Analysis of scripts.                                                    *)
(***************************************************************************)
RECURSIVE dataOfPushes(_)
\* A PushedData that leaves out OP_0.
dataOfPushes(pops) ==
    IF pops = <<>> THEN <<>>
    ELSE LET pop == Head(pops)
         IN  IF pop.hasData THEN <<pop.data>> \o dataOfPushes(Tail(pops))
             ELSE dataOfPushes(Tail(pops))

RECURSIVE dataOf(_)
\* The loop of PushedData; nil is the empty sequence.
dataOf(pops) ==
    IF pops = <<>> THEN <<>>
    ELSE LET pop == Head(pops)
         IN  IF pop.hasData THEN <<pop.data>> \o dataOf(Tail(pops))
             ELSE IF pop.opcode = OP_0 THEN <<(<<>>)>> \o dataOf(Tail(pops))
             ELSE dataOf(Tail(pops))

PushedDataResult(script) ==
    LET parsed == parseScript(script)
    IN  IF parsed.err # "nil" THEN [err |-> parsed.err, data |-> <<>>]
        ELSE [err |-> "nil", data |-> dataOf(parsed.pops)]

\* A serialized key decodes when its format byte fits its length; the
\* coordinates of the keys at hand are points of the curve.
DecodesAsPubKey(serializedPubKey) ==
    \/ Len(serializedPubKey) = 33 /\ serializedPubKey[1] \in {2, 3}
    \/ Len(serializedPubKey) = 65 /\ serializedPubKey[1] \in {4, 6, 7}

\* massutil.NewAddressPubKey: the address of a key, or nil and an error.
NewAddressPubKey(serializedPubKey) ==
    IF DecodesAsPubKey(serializedPubKey)
    THEN [err |-> "nil", isNil |-> FALSE, pubKey |-> serializedPubKey]
    ELSE [err |-> "ErrInvalidPubKey", isNil |-> TRUE, pubKey |-> <<>>]

NewAddressWitnessScriptHash(witnessProg) ==
    IF Len(witnessProg) = 32
    THEN [err |-> "nil", isNil |-> FALSE, pubKey |-> witnessProg]
    ELSE [err |-> "ErrInvalidLength", isNil |-> TRUE, pubKey |-> <<>>]

NewAddressLocktimeScriptHash(witnessProg) ==
    IF Len(witnessProg) = 20
    THEN [err |-> "nil", isNil |-> FALSE, pubKey |-> witnessProg]
    ELSE [err |-> "ErrInvalidLength", isNil |-> TRUE, pubKey |-> <<>>]

Extracted(class, addrs, pks, requiredSigs, err) ==
    [class |-> class, addrs |-> addrs, pks |-> pks,
     requiredSigs |-> requiredSigs, err |-> err]

RECURSIVE extractKeys(_, _, _, _, _, _)
\* The loop of the MultiSigTy case from index i on: PubKey is called on the
\* address before err is looked at, and panics on the nil address.
extractKeys(pops, i, numPubKeys, addrs, pks, requiredSigs) ==
    IF ~(i < numPubKeys) THEN Extracted(MultiSigTy, addrs, pks, requiredSigs, "nil")
    ELSE LET addr == NewAddressPubKey(pops[i + 2].data)
         IN  IF addr.isNil
             THEN Extracted(MultiSigTy, addrs, pks, requiredSigs, "panic")
             ELSE IF addr.err = "nil"
             THEN extractKeys(pops, i + 1, numPubKeys, Append(addrs, addr),
                              Append(pks, addr.pubKey), requiredSigs)
             ELSE extractKeys(pops, i + 1, numPubKeys, addrs, pks, requiredSigs)

ExtractPkScriptAddrsResult(script) ==
    LET parsed == parseScript(script)
        pops == parsed.pops
        scriptClass == typeOfScript(pops)
    IN  IF parsed.err # "nil"
        THEN Extracted(NonStandardTy, <<>>, <<>>, 0, parsed.err)
        ELSE IF scriptClass = WitnessV0ScriptHashTy
        THEN LET addr == NewAddressWitnessScriptHash(pops[2].data)
             IN  Extracted(scriptClass,
                           IF addr.err = "nil" THEN <<addr>> ELSE <<>>,
                           <<>>, 1, "nil")
        ELSE IF scriptClass = LocktimeScriptHashTy
        THEN LET addr == NewAddressLocktimeScriptHash(pops[5].data)
             IN  Extracted(scriptClass,
                           IF addr.err = "nil" THEN <<addr>> ELSE <<>>,
                           <<>>, 1, "nil")
        ELSE IF scriptClass = MultiSigTy
        THEN extractKeys(pops, 0, asSmallInt(pops[Len(pops) - 1].opcode),
                         <<>>, <<>>, asSmallInt(pops[1].opcode))
        ELSE Extracted(scriptClass, <<>>, <<>>, 0, "nil")

(***************************************************************************)
(* The calls.  A script is built by one of the builders or received from   *)
(* the transport, and then analysed; a panic ends the program.             *)
(***************************************************************************)
\* A script of the shape of a multisig script, as the builders lay it out.
RawMultiSig(numSigs, pushes, numPubKeys) ==
    AddOp(AddInt64(AddKeys(AddInt64(NewScriptBuilder, numSigs), pushes),
                   numPubKeys),
          OP_CHECKMULTISIG)

\* The scripts the transport delivers: multisig shapes over every push,
\* a single OP_RETURN, and a push cut short.
ScriptInputs ==
    {RawMultiSig(numSigs, pushes, Len(pushes)) :
         numSigs \in 0..MaxKeys, pushes \in ListsUpTo(PushInputs, MaxKeys)}
    \cup {<<OP_RETURN>>, <<33, 2>>}

scriptPanicked == out.err = "panic"

MultiSigScript ==
    \E pubkeys \in ListsUpTo(KeyInputs, MaxKeys), nrequired \in NRequiredInputs :
        LET r == MultiSigScriptResult(pubkeys, nrequired)
        IN  /\ ~scriptPanicked
            /\ pkScript' = r.script
            /\ made' = [op |-> "MultiSigScript", err |-> r.err,
                        pubkeys |-> pubkeys, nrequired |-> nrequired]
            /\ out' = [op |-> "MultiSigScript", err |-> r.err]
            /\ UNCHANGED <<vars, peerVars>>

PayToWitnessScriptHashScript ==
    \E scriptHash \in HashInputs :
        LET r == payToWitnessScriptHashScript(scriptHash)
        IN  /\ ~scriptPanicked
            /\ pkScript' = r.script
            /\ made' = [op |-> "PayToWitnessScriptHashScript", err |-> r.err,
                        scriptHash |-> scriptHash]
            /\ out' = [op |-> "PayToWitnessScriptHashScript", err |-> r.err]
            /\ UNCHANGED <<vars, peerVars>>

ReceiveScript ==
    \E script \in ScriptInputs :
        /\ ~scriptPanicked
        /\ pkScript' = script
        /\ made' = [op |-> "ReceiveScript", err |-> "nil"]
        /\ out' = [op |-> "ReceiveScript", err |-> "nil"]
        /\ UNCHANGED <<vars, peerVars>>

\* A call that analyses the script at hand.
Analyse(result) ==
    /\ ~scriptPanicked
    /\ made.op # "none" /\ made.err = "nil"
    /\ out' = result
    /\ UNCHANGED <<vars, peerVars, pkScript, made>>

GetScriptClass ==
    Analyse([op |-> "GetScriptClass", err |-> "nil",
             class |-> GetScriptClassResult(pkScript)])

CalcMultiSigStats ==
    LET r == CalcMultiSigStatsResult(pkScript)
    IN  Analyse([op |-> "CalcMultiSigStats", err |-> r.err,
                 numPubKeys |-> r.numPubKeys, numSigs |-> r.numSigs])

PushedData ==
    LET r == PushedDataResult(pkScript)
    IN  Analyse([op |-> "PushedData", err |-> r.err, data |-> r.data])

ExtractPkScriptAddrs ==
    LET r == ExtractPkScriptAddrsResult(pkScript)
    IN  Analyse([op |-> "ExtractPkScriptAddrs", err |-> r.err, class |-> r.class,
                 addrs |-> r.addrs, pks |-> r.pks,
                 requiredSigs |-> r.requiredSigs])

String ==
    \E t \in ClassInputs :
        LET r == StringResult(t)
        IN  /\ ~scriptPanicked
            /\ out' = [op |-> "String", err |-> r.err, t |-> t, val |-> r.val]
            /\ UNCHANGED <<vars, peerVars, pkScript, made>>

NextScript ==
    \/ MultiSigScript
    \/ PayToWitnessScriptHashScript
    \/ ReceiveScript
    \/ GetScriptClass
    \/ CalcMultiSigStats
    \/ PushedData
    \/ ExtractPkScriptAddrs
    \/ String

SpecScript == Init /\ [][NextScript]_scriptVars
(***************************************************************************)
(* C27.  MultiSigScript fails with ErrBadNumRequired exactly when          *)
(* nrequired is larger than the number of keys; a script it has built      *)
(* is of class MultiSigTy, and CalcMultiSigStats returns of it the number  *)
(* of keys and nrequired.                                                  *)
(***************************************************************************)
C27_MultiSigRoundTrip ==
    made.op = "MultiSigScript" =>
        /\ made.err = "ErrBadNumRequired" <=> made.nrequired > Len(made.pubkeys)
        /\ made.err \in {"nil", "ErrBadNumRequired"}
        /\ (made.err = "nil" /\ out.op = "GetScriptClass") =>
               out.class = MultiSigTy
        /\ (made.err = "nil" /\ out.op = "CalcMultiSigStats") =>
               /\ out.err = "nil"
               /\ out.numPubKeys = Len(made.pubkeys)
               /\ out.numSigs = made.nrequired

(***************************************************************************)
(* C28.  The script payToWitnessScriptHashScript builds of a 32-byte hash  *)
(* is OP_0 followed by the direct push of the hash; it is of class         *)
(* WitnessV0ScriptHashTy, and PushedData returns of it two entries: the    *)
(* empty entry of OP_0 and the hash.                                       *)
(***************************************************************************)
C28_WitnessScriptHashRoundTrip ==
    made.op = "PayToWitnessScriptHashScript" =>
        /\ made.err = "nil"
        /\ pkScript = <<OP_0, 32>> \o made.scriptHash
        /\ out.op = "GetScriptClass" => out.class = WitnessV0ScriptHashTy
        /\ out.op = "PushedData" =>
               out.err = "nil" /\ out.data = <<(<<>>), made.scriptHash>>

\* PushedData was called on the script built of a hash.
C28_Witness ==
    /\ made.op = "PayToWitnessScriptHashScript"
    /\ out.op = "PushedData"
    /\ Len(out.data) = 2

\* C28 as it was stated: PushedData returns the hash alone.
C28_PushedDataIsTheHash ==
    (made.op = "PayToWitnessScriptHashScript" /\ out.op = "PushedData") =>
        out.err = "nil" /\ out.data = <<made.scriptHash>>

(***************************************************************************)
(* C29.  String never fails: it returns the label of every class of the    *)
(* enumeration and "Invalid" for every other value, the first value past   *)
(* the labels included.                                                    *)
(***************************************************************************)
C29_StringNeverFails ==
    out.op = "String" =>
        /\ out.err = "nil"
        /\ out.val = IF out.t >= 0 /\ out.t < Len(scriptClassToName)
                     THEN scriptClassToName[out.t + 1]
                     ELSE "Invalid"

(***************************************************************************)
(* C30.  ExtractPkScriptAddrs never fails on a script of class MultiSigTy: *)
(* it returns the leading small integer as the required signatures, and    *)
(* the addresses and keys of exactly the pushes that decode as public      *)
(* keys, in the order of the script; a push that does not decode is left   *)
(* out.                                                                    *)
(***************************************************************************)
C30_InvalidKeysSkipped ==
    (out.op = "ExtractPkScriptAddrs"
         /\ GetScriptClassResult(pkScript) = MultiSigTy) =>
        LET pops == parseScript(pkScript).pops
            pushes == [n \in 1..(Len(pops) - 3) |-> pops[n + 1].data]
            decoded == SelectSeq(pushes, DecodesAsPubKey)
        IN  /\ out.err = "nil"
            /\ out.class = MultiSigTy
            /\ out.requiredSigs = asSmallInt(pops[1].opcode)
            /\ out.pks = decoded
            /\ Len(out.addrs) = Len(decoded)
            /\ \A n \in DOMAIN decoded : out.addrs[n].pubKey = decoded[n]
(***************************************************************************)
(* C31.  broadcastMinedBlock leaves SPV peers alone: no step of a          *)
(* broadcastMinedBlock call sends to a peer whose services lack            *)
(* SFFullNode, changes such a peer (its known blocks included) or removes  *)
(* it from the set.                                                        *)
(***************************************************************************)
C31_MinedBlockSkipsSPV ==
    [][\A t \in Threads :
           (th[t].op = "broadcastMinedBlock" /\ th'[t].op = "broadcastMinedBlock") =>
               \A p \in DOMAIN heap :
                   isSPVNode(p) =>
                       /\ heap'[p] = heap[p]
                       /\ \A id \in DOMAIN peers :
                              peers[id] = p => (id \in DOMAIN peers' /\ peers'[id] = p)
                       /\ \A i \in DOMAIN th'[t].log :
                              th'[t].log[i][1] = "TrySend" => th'[t].log[i][2] # p
      ]_peerVars

\* A broadcastMinedBlock returns that has sent to a full node while an SPV
\* peer without the block was registered.
C31_Witness ==
    \E t \in Threads :
        /\ AtReturnOf(t, "broadcastMinedBlock")
        /\ SentTo(t, TRUE) # {}
        /\ \E id \in DOMAIN peers :
               /\ isSPVNode(peers[id])
               /\ th[t].arg.hash \notin heap[peers[id]].knownBlocks
(***************************************************************************)
(* C32.  broadcastNewStatus always returns.  A call of it never waits for  *)
(* the set lock while it holds the read lock of the set itself: such a     *)
(* wait is for ever, since the writer it waits behind (its own removePeer, *)
(* or the writer queued before its second RLock) waits for that read       *)
(* lock.  And when the call returns, no peer whose TrySend failed is in    *)
(* the set.                                                                *)
(***************************************************************************)
C32_NewStatusReturns ==
    \A t \in Threads :
        th[t].op = "broadcastNewStatus" =>
            /\ ~(/\ psMtx.r[t] > 0
                 /\ th[t].pc = "removePeer_Lock")
            /\ ~(/\ psMtx.r[t] > 0
                 /\ th[t].pc = "peersWithoutBlock_RLock"
                 /\ BlockedInSetLock # {})
            /\ th[t].pc = "return" => FailedIds(t) \cap DOMAIN peers = {}
(***************************************************************************)
(* C33.  Broadcasts of a transaction are deduplicated per peer, whatever   *)
(* the interleaving of concurrent broadcastTx calls: a peer that has the   *)
(* hash in its known txs is not about to be sent it, no call sends it to   *)
(* a peer twice, and no two calls under way have both sent it to the same  *)
(* peer.                                                                   *)
(***************************************************************************)
\* How many successful sends to peer p the call of thread t has logged.
TimesSent(t, p) ==
    Cardinality({i \in DOMAIN th[t].log : th[t].log[i] = <<"TrySend", p, TRUE>>})

C33_TxSentOncePerPeer ==
    \A t \in Threads :
        th[t].op = "broadcastTx" =>
            /\ th[t].pc = "broadcastTx_TrySend" =>
                   th[t].arg.hash \notin heap[th[t].p].knownTxs
            /\ \A p \in DOMAIN heap :
                   /\ TimesSent(t, p) <= 1
                   /\ \A u \in Threads \ {t} :
                          (th[u].op = "broadcastTx" /\ th[u].arg.hash = th[t].arg.hash)
                              => TimesSent(t, p) + TimesSent(u, p) <= 1
(***************************************************************************)
(* One caller sending batches of transactions to the peers.                *)
(***************************************************************************)
MaxBatch == 3       \* the longest batch given to sendTransactions

BatchShas == TxShas \cup {"u"}

\* sendTransactions called with a batch; known0 keeps the known txs of the
\* peer at the call.
sendTxBatch(t) ==
    /\ Idle(t)
    /\ \E p \in DOMAIN heap, txs \in ListsUpTo(BatchShas, MaxBatch) :
           Begin(t, "sendTransactions", "sendTransactions_loop", "", p,
                 [list |-> txs, i |-> 1, known0 |-> heap[p].knownTxs])
    /\ UNCHANGED <<vars, scriptVars, peers, heap, psMtx>>

NextBatch ==
    \E t \in {1} :
        \/ addPeer(t) \/ addPeer_Lock(t) \/ addPeer_insert(t)
        \/ markTransaction(t) \/ markTransaction_Lock(t) \/ markTransaction_add(t)
        \/ sendTxBatch(t) \/ sendTransactions_loop(t)
        \/ sendTransactions_TrySend(t) \/ sendTransactions_add(t)
        \/ return(t)

SpecBatch == Init /\ [][NextBatch]_peerVars

(***************************************************************************)
(* C34.  sendTransactions on a full node walks the batch in order: a       *)
(* transaction the peer knows, one sent earlier in the batch included, is  *)
(* skipped; the walk stops with false at the first TrySend that fails and  *)
(* ends with true otherwise.  When the call returns, the known txs are     *)
(* those of before plus the hashes sent with success, and the outcomes of  *)
(* TrySend it has logged are those of this walk, none after a failure.     *)
(***************************************************************************)
RECURSIVE Walk(_, _, _)
\* The walk over txs from the known set, the TrySend outcomes being oks.
Walk(txs, known, oks) ==
    IF txs = <<>> THEN [known |-> known, ok |-> TRUE, sends |-> 0]
    ELSE IF Head(txs) \in known THEN Walk(Tail(txs), known, oks)
    ELSE IF oks = <<>> THEN [known |-> known, ok |-> TRUE, sends |-> 1]
    ELSE IF ~Head(oks) THEN [known |-> known, ok |-> FALSE, sends |-> 1]
    ELSE LET rest == Walk(Tail(txs), known \cup {Head(txs)}, Tail(oks))
         IN  [rest EXCEPT !.sends = @ + 1]

\* The outcomes of the TrySend calls the call of thread t has logged.
Outcomes(t) == [i \in DOMAIN th[t].log |-> th[t].log[i][3]]

C35_BlocksFormChain ==
    ~closed =>
        \A n \in 2..Len(blocks) :
            blocks[n].Previous = BlockHash(blocks[n - 1])
(***************************************************************************)
(* One caller registering peers, setting their filter addresses and        *)
(* sending transactions to them.                                           *)
(***************************************************************************)
NextSPV ==
    \E t \in {1} :
        \/ addPeer(t) \/ addPeer_Lock(t) \/ addPeer_insert(t)
        \/ addFilterAddresses(t) \/ addFilterAddresses_clear(t)
        \/ addFilterAddresses_loop(t)
        \/ addFilterAddress_Lock(t) \/ addFilterAddress_add(t)
        \/ broadcastTx(t) \/ broadcastTx_loop(t) \/ broadcastTx_TrySend(t)
        \/ peersWithoutTx_RLock(t) \/ peersWithoutTx_scan(t)
        \/ markTransaction_Lock(t) \/ markTransaction_add(t)
        \/ removePeer_Lock(t) \/ removePeer_delete(t) \/ removePeer_Stop(t)
        \/ sendTransactions(t) \/ sendTransactions_loop(t)
        \/ sendTransactions_TrySend(t) \/ sendTransactions_add(t)
        \/ return(t)

SpecSPV == Init /\ [][NextSPV]_peerVars

(***************************************************************************)
(* C36.  An SPV peer is never sent a transaction: whatever its filter      *)
(* addresses, no step of broadcastTx or of sendTransactions calls TrySend  *)
(* on a peer whose services lack SFFullNode or changes its known txs.      *)
(***************************************************************************)
C36_SPVNeverSentTx ==
    [][\A t \in Threads :
           (th[t].op \in {"broadcastTx", "sendTransactions"} /\ th'[t].op = th[t].op) =>
               \A p \in DOMAIN heap :
                   isSPVNode(p) =>
                       /\ heap'[p].knownTxs = heap[p].knownTxs
                       /\ th'[t].pc \in {"broadcastTx_TrySend",
                                        "sendTransactions_TrySend"}
                              => th'[t].p # p
                       /\ \A i \in DOMAIN th'[t].log :
                              th'[t].log[i][1] = "TrySend" => th'[t].log[i][2] # p
      ]_peerVars

\* sendTransactions returns true from an SPV peer with filter addresses,
\* which did not know the transaction, without a send.
C36_Witness ==
    \E t \in Threads :
        /\ AtReturnOf(t, "sendTransactions")
        /\ isSPVNode(th[t].p)
        /\ heap[th[t].p].filterAdds # {}
        /\ th[t].arg.list # <<>>
        /\ heap[th[t].p].knownTxs = {}
        /\ th[t].ok /\ th[t].log = <<>>

====
